---- MODULE Spec2Model ----
(***************************************************************************)
(* Model of the hackathon page parser of isad2023/hackathonService:        *)
(*   src/parse_hackathons.py        (module "root")                        *)
(*   src/utils/parse_hackathons.py  (module "utils", the older variant)    *)
(*                                                                         *)
(* Spec    : one call of parse_hackathon_details, one step per stage.      *)
(* RunSpec : main -> parse_hackathons_page -> per-link processing.         *)
(* PrizeSpec, FormatSpec, ListSpec, CleanSpec : the prize phrase, the       *)
(*   format detection, the list reconstruction and the description cleaner *)
(*   of parse_hackathon_details, each on inputs of its own.                *)
(* TeamSpec : calls of TeamService (src/services/team_service.py) over the *)
(*   tables of src/repository/team_repository.py.                          *)
(* ConcSpec : concurrent calls of TeamRepository.add_hacker_to_team.       *)
(* TimedSpec, PlaceSpec, SplitSpec, WalkSpec : the timed event-date        *)
(*   element, the first-place prize, the sentence-splitting pass and the   *)
(*   text collection of extract_description, each on inputs of its own.    *)
(*                                                                         *)
(* Text is abstracted to what the regular expressions of the code capture: *)
(* a date string "<day> <month> <year>..." is the record                   *)
(* [d |-> day, m |-> month number, ys |-> the 4-digit tokens after it].    *)
(***************************************************************************)
EXTENDS Integers, Sequences, FiniteSets, TLC

(***************************************************************************)
(* Bounds and input domains                                                *)
(***************************************************************************)
MaxLinks == 2

Variants == {"root", "utils"}
\* datetime.datetime.now().year of the run
CurrentYears == {2026, 2040}
\* what \d{1,2} and the month alternation capture in event dates
Days == {1, 31}
Months == {1, 4}
EventYears == {2025, 2026}
\* what the registration patterns capture
RegDays == {1}
RegMonths == {4}
RegYears == {2019, 2025}
\* year tokens matching \b(202\d|203\d)\b near a date without a year
NearbyYears == {2025}

(***************************************************************************)
(* Date strings                                                            *)
(***************************************************************************)
\* Python None for a date field
None_date == [d |-> 0, m |-> 0, ys |-> <<>>]

DateStr(day, month, years) == [d |-> day, m |-> month, ys |-> years]

\* r'202\d|203\d'
InYearWindow(y) == y \in 2020..2039

IsLeap(y) == (y % 4 = 0) /\ ((y % 100 # 0) \/ (y % 400 = 0))

DaysInMonth(y, m) ==
    IF m = 2 THEN (IF IsLeap(y) THEN 29 ELSE 28)
    ELSE IF m \in {4, 6, 9, 11} THEN 30 ELSE 31

RECURSIVE DaysBeforeMonth(_, _)
DaysBeforeMonth(y, m) ==
    IF m <= 1 THEN 0 ELSE DaysBeforeMonth(y, m - 1) + DaysInMonth(y, m - 1)

\* datetime.toordinal(): days since 0001-01-01, that day being 1
ToOrdinal(y, m, d) ==
    LET p == y - 1
    IN  p * 365 + (p \div 4) - (p \div 100) + (p \div 400)
        + DaysBeforeMonth(y, m) + d

\* datetime.datetime(year, month, day) raises ValueError outside these ranges
ValidCivil(y, m, d) ==
    /\ y \in 1..9999
    /\ m \in 1..12
    /\ d \in 1..DaysInMonth(y, m)

\* parse_ru_date: the ordinal of the date, or 0 for Python None.
\* "Исследования"/"подпис" never occur in a string made of the captured
\* day, month and year tokens, so that test is always false here.
parse_ru_date_swapped_fields(s) ==
    IF s = None_date THEN 0
    ELSE IF Len(s.ys) # 1 THEN 0
    ELSE IF ~ValidCivil(s.ys[1], s.m, s.d) THEN 0
    ELSE ToOrdinal(s.ys[1], s.d, s.m)

\* a variant for which datetime accepts any day of 1..31 in any month
parse_ru_date_any_day(s) ==
    IF s = None_date THEN 0
    ELSE IF Len(s.ys) # 1 THEN 0
    ELSE ToOrdinal(s.ys[1], s.m, s.d)

parse_ru_date(s) ==
    IF s = None_date THEN 0
    ELSE IF Len(s.ys) # 1 THEN 0
    ELSE IF ~ValidCivil(s.ys[1], s.m, s.d) THEN 0
    ELSE ToOrdinal(s.ys[1], s.m, s.d)

\* the .year of the parsed datetime
ParsedYear(s) == s.ys[1]

\* re.sub(r'\b(202\d|203\d)\b', new_year, date_str): every token in the window
ReplaceWindowYears(ys, new_year) ==
    [i \in 1..Len(ys) |-> IF InYearWindow(ys[i]) THEN new_year ELSE ys[i]]

\* re.search(r'\b(202\d|203\d)\b', date_str).group(1): 0 when there is no match
RECURSIVE FirstWindowYear(_)
FirstWindowYear(ys) ==
    IF ys = <<>> THEN 0
    ELSE IF InYearWindow(Head(ys)) THEN Head(ys)
    ELSE FirstWindowYear(Tail(ys))

\* update_year_in_date (the day+month test of the elif holds for every date string)
update_year_in_date_keep(date_str, new_year) == date_str

update_year_in_date(date_str, new_year) ==
    IF date_str = None_date THEN date_str
    ELSE IF FirstWindowYear(date_str.ys) # 0 /\ FirstWindowYear(date_str.ys) # new_year
         THEN [date_str EXCEPT !.ys = ReplaceWindowYears(@, new_year)]
    ELSE IF FirstWindowYear(date_str.ys) = 0
         THEN [date_str EXCEPT !.ys = Append(@, new_year)]
    ELSE date_str

(***************************************************************************)
(* Text: a string is the sequence of its tokens; None is kept apart        *)
(***************************************************************************)
\* Python None for a string field
None_str == [none |-> TRUE, toks |-> <<>>]

Str(toks) == [none |-> FALSE, toks |-> toks]

\* truth value of a str-or-None, as in `if detailed_info["name"]`
Truthy(s) == ~s.none /\ s.toks # <<>>

RECURSIVE LStrip(_)
LStrip(s) == IF s # <<>> /\ Head(s) = " " THEN LStrip(Tail(s)) ELSE s

RECURSIVE RStrip(_)
RStrip(s) ==
    IF s # <<>> /\ s[Len(s)] = " " THEN RStrip(SubSeq(s, 1, Len(s) - 1)) ELSE s

\* str.strip()
Strip(s) == LStrip(RStrip(s))

\* s.split(sep)[0]
RECURSIVE SplitFirst(_, _)
SplitFirst(s, sep) ==
    IF s = <<>> \/ Head(s) = sep THEN <<>>
    ELSE <<Head(s)>> \o SplitFirst(Tail(s), sep)

\* s.split(sep)[-1]
RECURSIVE SplitLast(_, _)
SplitLast(s, sep) ==
    IF s = <<>> \/ s[Len(s)] = sep THEN <<>>
    ELSE Append(SplitLast(SubSeq(s, 1, Len(s) - 1), sep), s[Len(s)])

Upper(t) == IF t = "a" THEN "A" ELSE t

\* str.capitalize(), the tokens after the first being lower case already
Capitalize(s) == IF s = <<>> THEN s ELSE <<Upper(Head(s))>> \o Tail(s)

\* the number a token of four digits spells, 0 for any other token
TokenYear(t) ==
    CASE t = "2019" -> 2019
      [] t = "2025" -> 2025
      [] t = "2026" -> 2026
      [] OTHER -> 0

\* re.search(r'202\d|203\d', name).group(0), 0 when there is no match
RECURSIVE FirstYearInText(_)
FirstYearInText(s) ==
    IF s = <<>> THEN 0
    ELSE IF InYearWindow(TokenYear(Head(s))) THEN TokenYear(Head(s))
    ELSE FirstYearInText(Tail(s))

NameYear(name) == FirstYearInText(name.toks)

\* url.startswith('http') or url.startswith('https'), after `not url`
UrlIsHttp_any(url) == TRUE

UrlIsHttp(url) == url # <<>> /\ Head(url) \in {"http:", "https:"}

\* the name taken from the detail page (root module)
name_from_url(url) == Capitalize(SplitLast(SplitLast(url, "/"), "-"))

PageName_no_fallback(title, h1, url) ==
    IF ~title.none THEN Str(Strip(SplitFirst(title.toks, "|")))
    ELSE None_str

PageName(title, h1, url) ==
    IF ~title.none THEN Str(Strip(SplitFirst(title.toks, "|")))
    ELSE IF ~h1.none THEN Str(h1.toks)
    ELSE Str(name_from_url(url))

\* the name taken from the listing link (utils module)
ListingName(title_div, title_h1, url) ==
    IF Truthy(title_div) THEN title_div
    ELSE IF Truthy(title_h1) THEN title_h1
    ELSE Str(Capitalize(SplitLast(url, "-")))

(***************************************************************************)
(* Listing description helpers (utils module)                              *)
(***************************************************************************)
\* Python None for amount_money
None_amount == -1

\* Python None for type
None_type == "None"

\* the number a token matching \d[\s\d]*[\d,.]+ spells (two characters at
\* least, so a token of one digit is not one), -1 for any other token
TokenNumber(t) ==
    CASE t = "500" -> 500
      [] OTHER -> -1

UnitMultiplier(t) ==
    IF t = "mln" THEN 1000000 ELSE IF t = "tys" THEN 1000 ELSE 1

\* extract_money: the first "<number> [млн|тыс] руб" of the text
\* (tokens are transliterated: mln = млн, tys = тыс, rub = руб)
RECURSIVE extract_money(_)
extract_money(text) ==
    IF text = <<>> THEN None_amount
    ELSE IF TokenNumber(Head(text)) >= 0 /\ Len(text) >= 2 /\ text[2] = "rub"
         THEN TokenNumber(Head(text))
    ELSE IF /\ TokenNumber(Head(text)) >= 0 /\ Len(text) >= 3
            /\ text[2] \in {"mln", "tys"} /\ text[3] = "rub"
         THEN TokenNumber(Head(text)) * UnitMultiplier(text[2])
    ELSE extract_money(Tail(text))

HasToken(text, ts) == \E i \in 1..Len(text) : text[i] \in ts

\* detect_hackathon_type (onlajn = онлайн, offlajn = оффлайн, ochno = очно)
detect_hackathon_type(text) ==
    IF text = <<>> THEN None_type
    ELSE IF HasToken(text, {"onlajn", "online"}) THEN "online"
    ELSE IF HasToken(text, {"offlajn", "offline", "ochno"}) THEN "offline"
    ELSE None_type

(***************************************************************************)
(* What a pattern cascade is given: the shape of the text it searches.     *)
(*   k    which phrasing the text holds ("none": no pattern matches)       *)
(*   a, b the first and second date of the phrasing, as written            *)
(*   near a \b(202\d|203\d)\b token elsewhere in the same element, or 0    *)
(***************************************************************************)
Shape(k, a, b, near) == [k |-> k, a |-> a, b |-> b, near |-> near]

NoShape == Shape("none", None_date, None_date, 0)

NothingWritten == [ok |-> FALSE, doc |-> <<>>]

(***************************************************************************)
(* State                                                                   *)
(***************************************************************************)
VARIABLES
    variant,           \* which of the two modules runs
    curYear,           \* datetime.datetime.now().year
    url,               \* the url argument of parse_hackathon_details
    given,             \* the basic_info argument, as the caller holds it
    hackathon,         \* the record being built
    pc,                \* position inside parse_hackathon_details
    stages,            \* the stages that have run on this record, in order
    fetched,           \* fetch_page_content returned content
    main_content_div,  \* the Content Locator found a node
    expected_year,     \* 0 until the Year Reconciler determines it
    reg_shape,         \* the registration phrasing that filled end_of_registration
    order_input,       \* <<start_of_hack, end_of_hack>> as the order validation got them
    unique_dates,      \* the dates the last-resort step chose from, {} when it chose none
    event_shape,       \* the event-date element of a page given to TimedSpec
    rpc,               \* position inside main / parse_hackathons_page
    links,             \* hackathon_links
    idx,               \* loop index of parse_hackathons_page (links done)
    log,               \* per link done: how it ended and whether it was appended
    hackathons,        \* the output collection
    written,           \* the document json.dump wrote, and whether it wrote one
    amount_text,       \* the characters written as the amount of a prize phrase
    amount_unit,       \* the unit word after them: "mln", "tys" or ""
    found,             \* what the prize stage or extract_money made of the phrase
    ppc,               \* which of the two has run on the phrase
    format_content,    \* the format signal the located content of a page holds
    format_text,       \* the format signal the whole text of that page holds
    list_name,         \* the tag name of a list of the located content: "ul" or "ol"
    list_items,        \* its <li> children: the attributes and the text of each
    list_text,         \* the lines extract_text_with_structure made of the list
    lpc,               \* whether the list has been reconstructed
    joined,            \* a description, as joined from the blocks
    cleaned,           \* what the cleaning step of extract_description made of it
    cleaned_again,     \* what the cleaning step made of the cleaned description
    cpc,               \* how many times the cleaning step has been applied
    team_rows,         \* the rows of the team table, each with its hackers
    hacker_rows,       \* the ids of the rows of the hacker table
    hackathon_rows,    \* the ids of the rows of the hackathon table
    team_call,         \* the last call of TeamService: arguments and outcome
    page_text,         \* the text of a page that names prizes by place
    prize_amount,      \* what the prize stage stored for that page
    zpc,               \* whether the prize stage has run on that page
    block,             \* a block of all_text, as the sentence-splitting pass gets it
    processed_blocks,  \* what the pass appended to processed_blocks for it
    spc,               \* whether the pass has run on the block
    article_body,      \* the children of the content container of a page
    all_text,          \* the texts extract_description collected from it
    npc,               \* whether they have been collected
    sessions           \* the concurrent calls of TeamRepository.add_hacker_to_team

vars == <<variant, curYear, url, given, hackathon, pc, stages, fetched, main_content_div,
          expected_year, reg_shape, order_input, unique_dates, event_shape,
          rpc, links, idx, log, hackathons,
          written, amount_text, amount_unit, found, ppc, format_content,
          format_text, list_name, list_items, list_text, lpc, joined, cleaned,
          cleaned_again, cpc, team_rows, hacker_rows, hackathon_rows, team_call,
          page_text, prize_amount, zpc, block, processed_blocks, spc,
          article_body, all_text, npc, sessions>>

detailVars == <<url, given, hackathon, pc, stages, fetched, main_content_div, expected_year,
                reg_shape, order_input, unique_dates, event_shape>>
runVars == <<rpc, links, idx, log, hackathons, written>>
prizeVars == <<amount_text, amount_unit, found, ppc>>

\* nothing found: prize_amount never assigned, extract_money returning None
None_found == [none |-> TRUE, m |-> 0, e |-> 0]

\* the variables of the prize phrase while another part of the program runs
PrizeIdle ==
    /\ amount_text = <<>>
    /\ amount_unit = ""
    /\ found = None_found
    /\ ppc = "idle"

formatVars == <<format_content, format_text>>

\* the page signals while no page with given signals is processed
FormatIdle ==
    /\ format_content = "none"
    /\ format_text = "none"

listVars == <<list_name, list_items, list_text, lpc>>

\* the list variables while no list is reconstructed
ListIdle ==
    /\ list_name = "ul"
    /\ list_items = <<>>
    /\ list_text = <<>>
    /\ lpc = "idle"

cleanVars == <<joined, cleaned, cleaned_again, cpc>>

\* the cleaner variables while no description is cleaned
CleanIdle ==
    /\ joined = <<>>
    /\ cleaned = <<>>
    /\ cleaned_again = <<>>
    /\ cpc = "idle"

teamVars == <<team_rows, hacker_rows, hackathon_rows, team_call>>

\* the outcome recorded while no call of TeamService has been made
NoCall ==
    [op |-> "none", team_id |-> 0, hacker_id |-> 0, owner_id |-> 0, name |-> "",
     max_size |-> 0, hackathon_id |-> 0, raised |-> "", id |-> 0, team |-> 0,
     hackers |-> {}, status |-> 0]

\* the tables while another part of the program runs
TeamIdle ==
    /\ team_rows = {}
    /\ hacker_rows = {}
    /\ hackathon_rows = {}
    /\ team_call = NoCall

placeVars == <<page_text, prize_amount, zpc>>

\* the page of places while another part of the program runs
PlaceIdle ==
    /\ page_text = <<>>
    /\ prize_amount = None_amount
    /\ zpc = "idle"

splitVars == <<block, processed_blocks, spc>>

\* the block variables while no block is split
SplitIdle ==
    /\ block = <<>>
    /\ processed_blocks = <<>>
    /\ spc = "idle"

walkVars == <<article_body, all_text, npc>>

\* the container variables while no container is walked
WalkIdle ==
    /\ article_body = <<>>
    /\ all_text = <<>>
    /\ npc = "idle"

concVars == <<sessions>>

\* no concurrent call is under way
ConcIdle == sessions = <<>>

laterVars == <<placeVars, splitVars, walkVars, concVars>>

LaterIdle == PlaceIdle /\ SplitIdle /\ WalkIdle /\ ConcIdle

otherVars == <<prizeVars, formatVars, listVars, cleanVars, teamVars, laterVars>>

\* the dictionary parse_hackathons_page creates for a link
basic_info(v, link) ==
    IF v = "root"
    THEN [name |-> None_str, task_description |-> None_str,
          start_of_registration |-> None_date, end_of_registration |-> None_date,
          start_of_hack |-> None_date, end_of_hack |-> None_date,
          amount_money |-> None_amount, type |-> None_type, url |-> link.href]
    ELSE LET description == IF link.descr.none THEN <<>> ELSE link.descr.toks
         IN [name |-> ListingName(link.title_div, link.title_h1, link.href),
             task_description |-> Str(description),
             start_of_registration |-> None_date, end_of_registration |-> None_date,
             start_of_hack |-> None_date, end_of_hack |-> None_date,
             amount_money |-> extract_money(description),
             type |-> detect_hackathon_type(description), url |-> link.href]

\* a link of the listing page: its href and what the <a> element holds
Link(href, title_div, title_h1, descr) ==
    [href |-> href, title_div |-> title_div, title_h1 |-> title_h1, descr |-> descr]

RelativeUrl == <<"/", "tpost", "/", "a">>
HttpUrl(tail) == <<"https:", "/", "/", "h", "/", "tpost", "/">> \o tail

DetailLinks ==
    { Link(u, t, None_str, d) :
        u \in {<<>>, RelativeUrl, HttpUrl(<<"a", "-", "2025">>)},
        t \in {None_str, Str(<<"a">>)},
        d \in {None_str, Str(<<"w", "onlajn", "500", "tys", "rub">>)} }

\* what the listing gives parse_hackathon_details: root ignores the <a> content
DetailInputs(v) ==
    IF v = "root" THEN {l \in DetailLinks : l.title_div.none /\ l.descr.none}
    ELSE DetailLinks

Init ==
    /\ variant \in Variants
    /\ curYear \in CurrentYears
    /\ \E l \in DetailInputs(variant) :
          /\ url = l.href
          /\ given = basic_info(variant, l)
          /\ hackathon = basic_info(variant, l)
    /\ pc = "call"
    /\ stages = <<>>
    /\ fetched = FALSE
    /\ main_content_div = FALSE
    /\ expected_year = 0
    /\ reg_shape = NoShape
    /\ order_input = <<None_date, None_date>>
    /\ unique_dates = {}
    /\ event_shape = NoShape
    /\ rpc = "idle"
    /\ links = <<>>
    /\ idx = 0
    /\ log = <<>>
    /\ hackathons = <<>>
    /\ written = NothingWritten
    /\ PrizeIdle
    /\ FormatIdle
    /\ ListIdle
    /\ CleanIdle
    /\ TeamIdle
    /\ LaterIdle

(***************************************************************************)
(* parse_hackathon_details, stage by stage                                 *)
(***************************************************************************)
Step(from, to, stage) ==
    /\ pc = from
    /\ pc' = to
    /\ stages' = Append(stages, stage)
    /\ UNCHANGED <<variant, curYear, url, given, runVars, otherVars>>

\* hackathon = basic_info.copy(), url check and fetch_page_content
FetchDetails ==
    /\ pc = "call"
    /\ \E ok \in BOOLEAN :
          /\ fetched' = (UrlIsHttp(url) /\ ok)
          /\ pc' = IF UrlIsHttp(url) /\ ok
                   THEN (IF variant = "root" THEN "name" ELSE "locate")
                   ELSE "ret"
    /\ UNCHANGED <<variant, curYear, url, given, hackathon, stages, main_content_div,
                   expected_year, reg_shape, order_input, unique_dates, event_shape,
                   runVars, otherVars>>

extract_name(v, title, h1, u, h) ==
    IF v = "root" THEN [h EXCEPT !.name = PageName(title, h1, u)] ELSE h

TitleTexts == {None_str, Str(<<"a", " ", "2025">>), Str(<<"a", " ", "|", " ", "2025">>)}
H1Texts == {None_str, Str(<<"a">>)}

\* title / h1 / URL fallback chain (root module only)
ExtractName ==
    /\ variant = "root"
    /\ Step("name", "locate", "name")
    /\ \E title \in TitleTexts, h1 \in H1Texts :
          hackathon' = extract_name(variant, title, h1, url, hackathon)
    /\ UNCHANGED <<fetched, main_content_div, expected_year, reg_shape, order_input, unique_dates, event_shape>>

\* Content Locator: the first div with a content-like class and > 500 characters
LocateContent ==
    /\ Step("locate", "describe", "locate")
    /\ main_content_div' \in BOOLEAN
    /\ UNCHANGED <<hackathon, fetched, expected_year, reg_shape, order_input, unique_dates, event_shape>>

\* the description built from the located node; stored only when non-empty
store_description(h, description) ==
    IF description # <<>> THEN [h EXCEPT !.task_description = Str(description)] ELSE h

describe(located, description, h) ==
    IF located THEN store_description(h, description) ELSE h

\* Structured Text Reconstructor and Description Cleaner
ExtractDescription ==
    /\ Step("describe", "reg_elem", "describe")
    /\ \E description \in {<<>>, <<"page">>} :
          hackathon' = describe(main_content_div, description, hackathon)
    /\ UNCHANGED <<fetched, main_content_div, expected_year, reg_shape, order_input, unique_dates, event_shape>>

\* f"{date_str} {year}"
WithYear(date, y) == [date EXCEPT !.ys = Append(@, y)]

DM == {DateStr(d, m, <<>>) : d \in Days, m \in Months}
DMY == {DateStr(d, m, <<y>>) : d \in Days, m \in Months, y \in EventYears}
RegDM == {DateStr(d, m, <<>>) : d \in RegDays, m \in RegMonths}
RegDMY == {DateStr(d, m, <<y>>) : d \in RegDays, m \in RegMonths, y \in RegYears}

\* "D1-D2 Month Year" and "D1-D2 Month": one month, one year, two days
DashRanges(k, years) ==
    {Shape(k, DateStr(d1, m, ys), DateStr(d2, m, ys), 0) :
        d1 \in Days, d2 \in Days, m \in Months, ys \in years}

OneYear == {<<y>> : y \in EventYears}

(***************************************************************************)
(* Registration deadline, block elements holding "регистрация до"          *)
(***************************************************************************)
RegElementShapes ==
    {NoShape}
    \cup {Shape("full", a, None_date, 0) : a \in RegDMY}
    \cup {Shape("partial", a, None_date, n) : a \in RegDM, n \in {0} \cup NearbyYears}

\* the year a date without a year is given when no year is near it
default_year_next(v, cur, name) == cur + 1

default_year(v, cur, name) ==
    IF v = "root" THEN cur
    ELSE IF NameYear(name) # 0 THEN NameYear(name)
    ELSE cur + 1

registration_elements(v, cur, sh, h) ==
    IF sh.k = "full" THEN [h EXCEPT !.end_of_registration = sh.a]
    ELSE IF sh.k = "partial"
         THEN [h EXCEPT !.end_of_registration =
                  WithYear(sh.a, IF sh.near # 0 THEN sh.near
                                 ELSE default_year(v, cur, h.name))]
    ELSE h

RegistrationElements ==
    /\ Step("reg_elem", "event_elem", "registration")
    /\ \E sh \in RegElementShapes :
          /\ hackathon' = registration_elements(variant, curYear, sh, hackathon)
          /\ reg_shape' = sh
    /\ UNCHANGED <<fetched, main_content_div, expected_year, order_input, unique_dates, event_shape>>

(***************************************************************************)
(* Event dates, block elements holding "дата проведения"                   *)
(***************************************************************************)
EventElementShapes ==
    {NoShape}
    \cup DashRanges("range_y", OneYear)
    \cup DashRanges("range", {<<>>})
    \cup {Shape("from_to", a, b, 0) : a \in DM, b \in DMY}
    \cup {Shape("from_to_y", a, b, 0) : a \in DMY, b \in DMY}
    \cup {Shape("single_y", a, None_date, 0) : a \in DMY}
    \cup {Shape("single", a, None_date, 0) : a \in DM}
    \cup {Shape("single_time", a, None_date, n) : a \in DM, n \in {0} \cup NearbyYears}

\* which phrasings each pattern of the cascade matches
MatchRangeYear(sh) == sh.k = "range_y"
MatchRange(sh) == sh.k \in {"range_y", "range"}
MatchFromTo(sh) == sh.k = "from_to"
MatchFromToYear(sh) == sh.k = "from_to_y"
MatchSingleYear(sh) == sh.k = "single_y"
MatchSingle(sh) == sh.k \in {"single_y", "single", "single_time"}
MatchSingleTime(sh) == sh.k = "single_time"

SetEvent(h, start, end) == [h EXCEPT !.start_of_hack = start, !.end_of_hack = end]
SetStart(h, start) == [h EXCEPT !.start_of_hack = start]

event_elements(v, cur, sh, h) ==
    IF MatchRangeYear(sh) THEN SetEvent(h, sh.a, sh.b)
    ELSE IF v = "root" /\ MatchRange(sh)
         THEN SetEvent(h, WithYear(sh.a, cur), WithYear(sh.b, cur))
    ELSE IF MatchFromTo(sh) THEN SetEvent(h, WithYear(sh.a, sh.b.ys[1]), sh.b)
    ELSE IF MatchFromToYear(sh) THEN SetEvent(h, sh.a, sh.b)
    ELSE IF MatchSingleYear(sh) THEN SetStart(h, sh.a)
    ELSE IF v = "root" /\ MatchSingle(sh) THEN SetStart(h, WithYear(sh.a, cur))
    ELSE IF MatchSingleTime(sh)
         THEN SetStart(h, WithYear(sh.a, IF sh.near # 0 THEN sh.near
                                         ELSE IF v = "root" THEN cur ELSE cur + 1))
    ELSE h

EventElements ==
    /\ Step("event_elem", "reg_text", "event")
    /\ \E sh \in EventElementShapes :
          hackathon' = event_elements(variant, curYear, sh, hackathon)
    /\ UNCHANGED <<fetched, main_content_div, expected_year, reg_shape, order_input,
                   unique_dates, event_shape>>

(***************************************************************************)
(* Registration deadline, whole-document text                              *)
(***************************************************************************)
RegTextShapes ==
    {NoShape}
    \cup {Shape("full", a, None_date, 0) : a \in RegDMY}
    \cup {Shape("partial", a, None_date, 0) : a \in RegDM}
    \cup {Shape("loose", a, None_date, 0) : a \in RegDMY}

\* the year of reg_date replaced by the year of the name, when both are there
align_with_name(reg_date, name) ==
    IF /\ NameYear(name) # 0
       /\ FirstWindowYear(reg_date.ys) # 0
       /\ FirstWindowYear(reg_date.ys) # NameYear(name)
    THEN [reg_date EXCEPT !.ys = ReplaceWindowYears(@, NameYear(name))]
    ELSE reg_date

registration_text(v, cur, sh, h) ==
    IF h.end_of_registration # None_date THEN h
    ELSE IF sh.k = "full"
         THEN [h EXCEPT !.end_of_registration = align_with_name(sh.a, h.name)]
    ELSE IF v = "root" /\ sh.k = "partial"
         THEN [h EXCEPT !.end_of_registration = WithYear(sh.a, cur)]
    ELSE IF v = "utils" /\ sh.k = "loose"
         THEN [h EXCEPT !.end_of_registration = sh.a]
    ELSE h

RegistrationText ==
    /\ Step("reg_text", "event_text", "registration")
    /\ \E sh \in RegTextShapes :
          /\ hackathon' = registration_text(variant, curYear, sh, hackathon)
          /\ reg_shape' = IF hackathon'.end_of_registration # hackathon.end_of_registration
                          THEN sh ELSE reg_shape
    /\ UNCHANGED <<fetched, main_content_div, expected_year, order_input, unique_dates, event_shape>>

(***************************************************************************)
(* Event dates, whole-document text                                        *)
(***************************************************************************)
EventTextShapes ==
    {NoShape}
    \cup {Shape("from_to_y", a, b, 0) : a \in DMY, b \in DMY}
    \cup {Shape("single_y", a, None_date, 0) : a \in DMY}

event_text(sh, h) ==
    IF h.start_of_hack # None_date THEN h
    ELSE IF MatchFromToYear(sh) THEN SetEvent(h, sh.a, sh.b)
    ELSE IF MatchSingleYear(sh) THEN SetStart(h, sh.a)
    ELSE h

EventText ==
    /\ Step("event_text", "event_generic", "event")
    /\ \E sh \in EventTextShapes : hackathon' = event_text(sh, hackathon)
    /\ UNCHANGED <<fetched, main_content_div, expected_year, reg_shape, order_input, unique_dates, event_shape>>

\* "хакатон пройдет D1-D2 Month Year", "... пройдет D Month Year",
\* "с D Month по D Month Year", "D1-D2 Month Year"
EventGenericShapes ==
    {NoShape}
    \cup DashRanges("held_range", OneYear)
    \cup {Shape("held_single", a, None_date, 0) : a \in DMY}
    \cup {Shape("from_to", a, b, 0) : a \in DM, b \in DMY}
    \cup DashRanges("range_y", OneYear)

event_generic(sh, h) ==
    IF h.start_of_hack # None_date THEN h
    ELSE IF sh.k = "held_range" THEN SetEvent(h, sh.a, sh.b)
    ELSE IF sh.k = "held_single" THEN SetStart(h, sh.a)
    ELSE IF MatchFromTo(sh) THEN SetEvent(h, WithYear(sh.a, sh.b.ys[1]), sh.b)
    ELSE IF MatchRangeYear(sh) THEN SetEvent(h, sh.a, sh.b)
    ELSE h

EventGeneric ==
    /\ Step("event_generic", "event_desc", "event")
    /\ \E sh \in EventGenericShapes : hackathon' = event_generic(sh, hackathon)
    /\ UNCHANGED <<fetched, main_content_div, expected_year, reg_shape, order_input, unique_dates, event_shape>>

\* narrative phrasings of the description: "пройдёт с D1 по D2 Month Year",
\* "проходит с D Month [Year] по D Month Year", "D1-D2 Month Year"
EventDescriptionShapes ==
    {NoShape}
    \cup DashRanges("s_po", OneYear)
    \cup {Shape("from_to", a, b, 0) : a \in DM, b \in DMY}
    \cup {Shape("from_to_y", a, b, 0) : a \in DMY, b \in DMY}
    \cup DashRanges("range_y", OneYear)

event_description_guarded(sh, h) ==
    IF h.start_of_hack # None_date \/ h.end_of_hack # None_date THEN h
    ELSE IF sh.k \in {"s_po", "from_to_y", "range_y"} THEN SetEvent(h, sh.a, sh.b)
    ELSE IF MatchFromTo(sh) THEN SetEvent(h, WithYear(sh.a, sh.b.ys[1]), sh.b)
    ELSE h

event_description(sh, h) ==
    IF ~((h.start_of_hack = None_date \/ h.end_of_hack = None_date)
         /\ Truthy(h.task_description))
    THEN h
    ELSE IF sh.k = "s_po" THEN SetEvent(h, sh.a, sh.b)
    ELSE IF MatchFromTo(sh) THEN SetEvent(h, WithYear(sh.a, sh.b.ys[1]), sh.b)
    ELSE IF MatchFromToYear(sh) THEN SetEvent(h, sh.a, sh.b)
    ELSE IF /\ h.start_of_hack = None_date /\ h.end_of_hack = None_date
            /\ MatchRangeYear(sh)
         THEN SetEvent(h, sh.a, sh.b)
    ELSE h

EventDescription ==
    /\ Step("event_desc", "event_any", "event")
    /\ \E sh \in EventDescriptionShapes : hackathon' = event_description(sh, hackathon)
    /\ UNCHANGED <<fetched, main_content_div, expected_year, reg_shape, order_input, unique_dates, event_shape>>

(***************************************************************************)
(* Last resort: every "D Month YYYY" of the page, sorted as strings        *)
(***************************************************************************)
MaxPageDates == 2

\* position of the month name in the alphabetical order of the twelve names
MonthNameRank(m) ==
    CASE m = 8 -> 1 [] m = 4 -> 2 [] m = 12 -> 3 [] m = 7 -> 4
      [] m = 6 -> 5 [] m = 3 -> 6 [] m = 5 -> 7 [] m = 11 -> 8
      [] m = 10 -> 9 [] m = 9 -> 10 [] m = 2 -> 11 [] m = 1 -> 12
      [] OTHER -> 0

\* "D" < "D'" as strings followed by a space: digits compared left to right,
\* the space after a one-digit day sorting before any digit
DayStrLess(x, y) ==
    LET x1 == IF x < 10 THEN x ELSE x \div 10
        y1 == IF y < 10 THEN y ELSE y \div 10
    IN  IF x1 # y1 THEN x1 < y1
        ELSE IF x < 10 THEN y >= 10
        ELSE y >= 10 /\ x % 10 < y % 10

\* str.__lt__ on two "D Month YYYY" strings
StrLess(s, t) ==
    IF s.d # t.d THEN DayStrLess(s.d, t.d)
    ELSE IF s.m # t.m THEN MonthNameRank(s.m) < MonthNameRank(t.m)
    ELSE s.ys[1] < t.ys[1]

\* sorted(set(filtered_dates))[0] and [-1]
SortedFirst(S) == CHOOSE s \in S : \A t \in S \ {s} : StrLess(s, t)
SortedLast(S) == CHOOSE s \in S : \A t \in S \ {s} : StrLess(t, s)

PageDateSets == {S \in SUBSET DMY : Cardinality(S) <= MaxPageDates}

event_any_dates(S, h) ==
    IF h.start_of_hack # None_date \/ h.end_of_hack # None_date THEN h
    ELSE IF Cardinality(S) >= 2 THEN SetEvent(h, SortedFirst(S), SortedLast(S))
    ELSE IF Cardinality(S) = 1 THEN SetStart(h, SortedFirst(S))
    ELSE h

EventAnyDates ==
    /\ Step("event_any", "validate", "event")
    /\ \E S \in PageDateSets :
          /\ hackathon' = event_any_dates(S, hackathon)
          /\ unique_dates' = IF hackathon' # hackathon THEN S ELSE {}
    /\ UNCHANGED <<fetched, main_content_div, expected_year, reg_shape, order_input, event_shape>>

(***************************************************************************)
(* Start/end order validation                                              *)
(***************************************************************************)
Abs(n) == IF n < 0 THEN 0 - n ELSE n

\* the longest span, in days, for which dates of different years are exchanged
MaxSpanDays == 365

validate_order_swap_always(h) ==
    LET start_date == parse_ru_date(h.start_of_hack)
        end_date == parse_ru_date(h.end_of_hack)
    IN  IF start_date # 0 /\ end_date # 0 /\ end_date < start_date
        THEN SetEvent(h, h.end_of_hack, h.start_of_hack)
        ELSE h

validate_order_never(h) == h

validate_order(h) ==
    LET start_date == parse_ru_date(h.start_of_hack)
        end_date == parse_ru_date(h.end_of_hack)
    IN  IF h.start_of_hack = None_date \/ h.end_of_hack = None_date THEN h
        ELSE IF ~(start_date # 0 /\ end_date # 0 /\ end_date < start_date) THEN h
        ELSE IF ParsedYear(h.start_of_hack) = ParsedYear(h.end_of_hack)
             THEN SetEvent(h, h.end_of_hack, h.start_of_hack)
        ELSE IF Abs(end_date - start_date) > MaxSpanDays
             THEN [h EXCEPT !.end_of_hack = None_date]
        ELSE SetEvent(h, h.end_of_hack, h.start_of_hack)

ValidateOrder ==
    /\ Step("validate", "format", "validate")
    /\ hackathon' = validate_order(hackathon)
    /\ order_input' = <<hackathon.start_of_hack, hackathon.end_of_hack>>
    /\ UNCHANGED <<fetched, main_content_div, expected_year, reg_shape, unique_dates, event_shape>>

(***************************************************************************)
(* Format                                                                  *)
(***************************************************************************)
\* what the located content holds: an explicit "формат: ..." declaration,
\* a "место проведения:" declaration, a whitelisted city, or none of them
ContentFormatSignals == {"format_online", "format_offline", "venue", "city", "none"}
\* what the whole-document keyword search finds
TextFormatSignals == {"online", "offline", "none"}

\* the whole-document keyword search first
detect_format_text_first(located, content, text, h) ==
    IF text # "none" THEN [h EXCEPT !.type = text]
    ELSE IF ~located \/ content = "none" THEN h
    ELSE IF content = "format_online" THEN [h EXCEPT !.type = "online"]
    ELSE [h EXCEPT !.type = "offline"]

detect_format(located, content, text, h) ==
    LET h1 == IF ~located \/ content = "none" THEN h
              ELSE IF content = "format_online" THEN [h EXCEPT !.type = "online"]
              ELSE [h EXCEPT !.type = "offline"]
    IN  IF h1.type # None_type \/ text = "none" THEN h1
        ELSE [h1 EXCEPT !.type = text]

DetectFormat ==
    /\ Step("format", "prize", "format")
    /\ \E content \in ContentFormatSignals, text \in TextFormatSignals :
          hackathon' = detect_format(main_content_div, content, text, hackathon)
    /\ UNCHANGED <<fetched, main_content_div, expected_year, reg_shape, order_input, unique_dates, event_shape>>

(***************************************************************************)
(* Prize                                                                   *)
(***************************************************************************)
\* the first prize pattern that matches the page: which one, the number and the
\* unit token it captures, and whether the page mentions 2nd and 3rd place
Prize(k, n, unit, places) == [k |-> k, n |-> n, unit |-> unit, places |-> places]

PrizeShapes ==
    { Prize("none", 0, "", FALSE),
      Prize("fund", 500, "tys", FALSE),
      Prize("first_place", 500, "", FALSE),
      Prize("first_place", 500, "", TRUE) }

extract_prize(sh, h) ==
    IF sh.k = "none" THEN h
    ELSE IF sh.k = "first_place" /\ sh.places
         THEN [h EXCEPT !.amount_money = sh.n * UnitMultiplier(sh.unit) * 2]
    ELSE [h EXCEPT !.amount_money = sh.n * UnitMultiplier(sh.unit)]

ExtractPrize ==
    /\ Step("prize", "sleep", "prize")
    /\ \E sh \in PrizeShapes : hackathon' = extract_prize(sh, hackathon)
    /\ UNCHANGED <<fetched, main_content_div, expected_year, reg_shape, order_input, unique_dates, event_shape>>

\* time.sleep(1)
Pace ==
    /\ Step("sleep", "expected_year", "sleep")
    /\ UNCHANGED <<hackathon, fetched, main_content_div, expected_year, reg_shape,
                   order_input, unique_dates, event_shape>>

(***************************************************************************)
(* Year Reconciler                                                         *)
(***************************************************************************)
fallback_year(v, cur) == IF v = "root" THEN cur ELSE cur + 1

determine_expected_year_reg_first(v, cur, h) ==
    IF NameYear(h.name) # 0 THEN NameYear(h.name)
    ELSE IF FirstWindowYear(h.end_of_registration.ys) # 0
         THEN FirstWindowYear(h.end_of_registration.ys)
    ELSE IF FirstWindowYear(h.start_of_hack.ys) # 0
         THEN FirstWindowYear(h.start_of_hack.ys)
    ELSE IF FirstWindowYear(h.end_of_hack.ys) # 0
         THEN FirstWindowYear(h.end_of_hack.ys)
    ELSE fallback_year(v, cur)

determine_expected_year(v, cur, h) ==
    IF NameYear(h.name) # 0 THEN NameYear(h.name)
    ELSE IF FirstWindowYear(h.start_of_hack.ys) # 0
         THEN FirstWindowYear(h.start_of_hack.ys)
    ELSE IF FirstWindowYear(h.end_of_hack.ys) # 0
         THEN FirstWindowYear(h.end_of_hack.ys)
    ELSE fallback_year(v, cur)

DetermineExpectedYear ==
    /\ Step("expected_year", "rewrite", "expected_year")
    /\ expected_year' = determine_expected_year(variant, curYear, hackathon)
    /\ UNCHANGED <<hackathon, fetched, main_content_div, reg_shape, order_input, unique_dates, event_shape>>

rewrite_years(h, year) ==
    [h EXCEPT !.end_of_registration = update_year_in_date(@, year),
              !.start_of_hack = update_year_in_date(@, year),
              !.end_of_hack = update_year_in_date(@, year)]

RewriteYears ==
    /\ Step("rewrite", "ret", "rewrite")
    /\ hackathon' = rewrite_years(hackathon, expected_year)
    /\ UNCHANGED <<fetched, main_content_div, expected_year, reg_shape, order_input, unique_dates, event_shape>>

Next ==
    \/ FetchDetails
    \/ ExtractName
    \/ LocateContent
    \/ ExtractDescription
    \/ RegistrationElements
    \/ EventElements
    \/ RegistrationText
    \/ EventText
    \/ EventGeneric
    \/ EventDescription
    \/ EventAnyDates
    \/ ValidateOrder
    \/ DetectFormat
    \/ ExtractPrize
    \/ Pace
    \/ DetermineExpectedYear
    \/ RewriteYears

Spec == Init /\ [][Next]_vars

(***************************************************************************)
(* parse_hackathon_details as one function of the page: the stages above,  *)
(* composed in the order the code runs them                                *)
(***************************************************************************)
Page(title, h1, located, description, event, content_format, prize) ==
    [title |-> title, h1 |-> h1, located |-> located, description |-> description,
     reg_elem |-> NoShape, event_elem |-> event, reg_text |-> NoShape,
     event_text |-> NoShape, event_generic |-> NoShape, event_desc |-> NoShape,
     dates |-> {}, content_format |-> content_format, text_format |-> "none",
     prize |-> prize]

parse_hackathon_details(v, cur, u, basic, got_content, page) ==
    IF ~UrlIsHttp(u) \/ ~got_content THEN basic
    ELSE LET h1 == extract_name(v, page.title, page.h1, u, basic)
             h2 == describe(page.located, page.description, h1)
             h3 == registration_elements(v, cur, page.reg_elem, h2)
             h4 == event_elements(v, cur, page.event_elem, h3)
             h5 == registration_text(v, cur, page.reg_text, h4)
             h6 == event_text(page.event_text, h5)
             h7 == event_generic(page.event_generic, h6)
             h8 == event_description(page.event_desc, h7)
             h9 == event_any_dates(page.dates, h8)
             h10 == validate_order(h9)
             h11 == detect_format(page.located, page.content_format, page.text_format, h10)
             h12 == extract_prize(page.prize, h11)
         IN  rewrite_years(h12, determine_expected_year(v, cur, h12))

(***************************************************************************)
(* parse_hackathons_page and main                                          *)
(***************************************************************************)
NonPostUrl == <<"https:", "/", "/", "h", "/", "about">>

\* '/tpost/' in href
IsPostUrl(href) == \E i \in 1..Len(href) : href[i] = "tpost"

RunLinks ==
    { Link(u, t, None_str, None_str) :
        u \in {RelativeUrl, HttpUrl(<<"a">>), HttpUrl(<<"a", "-">>), NonPostUrl},
        t \in {None_str, Str(<<"a">>)} }

\* the <a> content is read by the utils module only
ListingLinks(v) == IF v = "root" THEN {l \in RunLinks : l.title_div.none} ELSE RunLinks

RECURSIVE SeqsUpTo(_, _)
SeqsUpTo(S, n) ==
    IF n = 0 THEN {<<>>}
    ELSE LET shorter == SeqsUpTo(S, n - 1)
         IN  shorter \cup {Append(q, x) : q \in {r \in shorter : Len(r) = n - 1}, x \in S}

\* the modern container: links to posts, the first of each href kept
RECURSIVE discover_modern_no_dedup(_)
discover_modern_no_dedup(items) ==
    IF items = <<>> THEN <<>>
    ELSE LET before == discover_modern_no_dedup(SubSeq(items, 1, Len(items) - 1))
             link == items[Len(items)]
         IN  IF IsPostUrl(link.href) THEN Append(before, link) ELSE before

RECURSIVE discover_modern(_)
discover_modern(items) ==
    IF items = <<>> THEN <<>>
    ELSE LET before == discover_modern(SubSeq(items, 1, Len(items) - 1))
             link == items[Len(items)]
         IN  IF /\ IsPostUrl(link.href)
                /\ \A i \in 1..Len(before) : before[i].href # link.href
             THEN Append(before, link)
             ELSE before

\* the legacy container: links to posts, every one kept
RECURSIVE discover_legacy(_)
discover_legacy(items) ==
    IF items = <<>> THEN <<>>
    ELSE LET before == discover_legacy(SubSeq(items, 1, Len(items) - 1))
             link == items[Len(items)]
         IN  IF IsPostUrl(link.href) THEN Append(before, link) ELSE before

discover(modern, legacy) ==
    IF discover_modern(modern) # <<>> THEN discover_modern(modern)
    ELSE discover_legacy(legacy)

RunTitleTexts == {None_str, Str(<<>>), Str(<<"a", " ", "2025">>)}

RunPages ==
    { Page(None_str, None_str, FALSE, <<>>, NoShape, "none", Prize("none", 0, "", FALSE)),
      Page(Str(<<>>), None_str, FALSE, <<>>, NoShape, "none", Prize("none", 0, "", FALSE)),
      Page(None_str, Str(<<"a">>), TRUE, <<>>, NoShape, "venue",
           Prize("none", 0, "", FALSE)),
      Page(Str(<<"a", " ", "2025">>), None_str, TRUE, <<"page">>,
           Shape("range_y", DateStr(1, 4, <<2025>>), DateStr(31, 4, <<2025>>), 0),
           "format_online", Prize("fund", 500, "tys", FALSE)) }

RunInit ==
    /\ variant \in Variants
    /\ curYear \in CurrentYears
    /\ url = <<>>
    /\ given = basic_info("root", Link(<<>>, None_str, None_str, None_str))
    /\ hackathon = basic_info("root", Link(<<>>, None_str, None_str, None_str))
    /\ pc = "idle"
    /\ stages = <<>>
    /\ fetched = FALSE
    /\ main_content_div = FALSE
    /\ expected_year = 0
    /\ reg_shape = NoShape
    /\ order_input = <<None_date, None_date>>
    /\ unique_dates = {}
    /\ event_shape = NoShape
    /\ rpc = "main"
    /\ links = <<>>
    /\ idx = 0
    /\ log = <<>>
    /\ hackathons = <<>>
    /\ written = NothingWritten
    /\ PrizeIdle
    /\ FormatIdle
    /\ ListIdle
    /\ CleanIdle
    /\ TeamIdle
    /\ LaterIdle

RunStep(from, to) ==
    /\ rpc = from
    /\ rpc' = to
    /\ UNCHANGED <<variant, curYear, detailVars, otherVars>>

\* main: open(html_file_path).read()
ReadListing ==
    /\ \E readable \in BOOLEAN :
          RunStep("main", IF readable THEN "discover" ELSE "unreadable")
    /\ UNCHANGED <<links, idx, log, hackathons, written>>

\* parse_hackathons_page: link discovery
DiscoverLinks ==
    /\ RunStep("discover", "loop")
    /\ \E modern \in SeqsUpTo(ListingLinks(variant), MaxLinks),
          legacy \in SeqsUpTo(ListingLinks(variant), MaxLinks) :
          links' = discover(modern, legacy)
    /\ UNCHANGED <<idx, log, hackathons, written>>

\* whether parse_hackathons_page appends the record it got for a link
keeps_record(v, detailed_info) == v = "utils" \/ Truthy(detailed_info.name)

\* where the loop goes when processing a link raised
after_exception_abort == "aborted"

after_exception == "loop"

\* hackathons.append(detailed_info)
append_record_front(hs, detailed_info) == <<detailed_info>> \o hs

append_record(hs, detailed_info) == Append(hs, detailed_info)

\* whether time.sleep(1) ran in a call of parse_hackathon_details: it stands
\* after the extraction stages, so only a call that got the page reaches it,
\* and a call that raised reaches it only when it raised late, after it
sleeps(href, outcome, late) ==
    /\ UrlIsHttp(href)
    /\ outcome = "ok" \/ (outcome = "raised" /\ late)

\* parse_hackathons_page: one iteration of the per-link loop
ProcessLink ==
    /\ rpc = "loop"
    /\ idx < Len(links)
    /\ LET link == links[idx + 1]
           basic == basic_info(variant, link)
       IN  \E outcome \in {"ok", "fetch_failed", "raised"}, page \in RunPages,
              late \in BOOLEAN :
              LET detailed_info ==
                      parse_hackathon_details(variant, curYear, link.href, basic,
                                              outcome = "ok", page)
                  keep == outcome # "raised" /\ keeps_record(variant, detailed_info)
              IN  /\ hackathons' = IF keep THEN append_record(hackathons, detailed_info)
                                   ELSE hackathons
                  /\ log' = Append(log, [outcome |-> outcome,
                                         fetched |-> outcome = "ok" /\ UrlIsHttp(link.href),
                                         requested |-> UrlIsHttp(link.href),
                                         slept |-> sleeps(link.href, outcome, late),
                                         named |-> Truthy(detailed_info.name),
                                         appended |-> keep])
                  /\ rpc' = IF outcome = "raised" THEN after_exception ELSE "loop"
    /\ idx' = idx + 1
    /\ UNCHANGED <<variant, curYear, detailVars, links, written, otherVars>>

\* parse_hackathons_page: return hackathons
ReturnHackathons ==
    /\ idx = Len(links)
    /\ RunStep("loop", "print")
    /\ UNCHANGED <<links, idx, log, hackathons, written>>

\* hackathon['task_description'][:100] raises TypeError on None
print_results_total(hs) == "dump"

print_results(hs) ==
    IF \E i \in 1..Len(hs) : hs[i].task_description.none THEN "failed" ELSE "dump"

\* main: the loop printing every record
PrintResults ==
    /\ RunStep("print", print_results(hackathons))
    /\ UNCHANGED <<links, idx, log, hackathons, written>>

\* main: json.dump(hackathons, f, ensure_ascii=False, indent=2)
DumpJson ==
    /\ RunStep("dump", "done")
    /\ written' = [ok |-> TRUE, doc |-> hackathons]
    /\ UNCHANGED <<links, idx, log, hackathons>>

RunNext ==
    \/ ReadListing
    \/ DiscoverLinks
    \/ ProcessLink
    \/ ReturnHackathons
    \/ PrintResults
    \/ DumpJson

RunSpec == RunInit /\ [][RunNext]_vars

(***************************************************************************)
(* Claims about parse_hackathon_details (checked under Spec)               *)
(***************************************************************************)
Returned == pc = "ret" /\ fetched

BothParse(s, e) == parse_ru_date(s) # 0 /\ parse_ru_date(e) # 0

\* C1: in a returned record whose start_of_hack and end_of_hack both parse as
\* "<day> <month> <year>" and carry the same year, start is not later than end.
C1_StartNotAfterEnd ==
    (/\ Returned
     /\ BothParse(hackathon.start_of_hack, hackathon.end_of_hack)
     /\ hackathon.start_of_hack.ys = hackathon.end_of_hack.ys)
    => parse_ru_date(hackathon.start_of_hack) <= parse_ru_date(hackathon.end_of_hack)

DateFields == {"end_of_registration", "start_of_hack", "end_of_hack"}

\* C2: in a record returned after a successful fetch every populated date field
\* holds exactly one 4-digit year, and that year is the record's expected_year.
C2_OneExpectedYear ==
    Returned =>
        \A f \in DateFields :
            hackathon[f] # None_date => hackathon[f].ys = <<expected_year>>

\* the first year of the 2020-2039 window in each source, 0 when it has none
YearOfName == NameYear(hackathon.name)
YearOfRegistration == FirstWindowYear(hackathon.end_of_registration.ys)
YearOfStart == FirstWindowYear(hackathon.start_of_hack.ys)
YearOfEnd == FirstWindowYear(hackathon.end_of_hack.ys)

C4_ExactlyNameYear ==
    (/\ Returned
     /\ reg_shape.k = "partial"
     /\ reg_shape.near = 0
     /\ YearOfName # 0)
    => hackathon.end_of_registration = WithYear(reg_shape.a, YearOfName)

\* C5: right after the order validation, for a start s and an end e that both
\* parsed: with e < s the two are exchanged when they share a year or lie at most
\* 365 days apart, and end is dropped (start kept) when the years differ and they
\* lie more than 365 days apart; with e >= s nothing changed.
C5_OrderOutcomes ==
    LET s == order_input[1]
        e == order_input[2]
        exchanged == hackathon.start_of_hack = e /\ hackathon.end_of_hack = s
        dropped == hackathon.start_of_hack = s /\ hackathon.end_of_hack = None_date
        kept == hackathon.start_of_hack = s /\ hackathon.end_of_hack = e
    IN  (pc = "format" /\ BothParse(s, e)) =>
            IF parse_ru_date(e) >= parse_ru_date(s) THEN kept
            ELSE IF s.ys = e.ys THEN exchanged
            ELSE IF parse_ru_date(s) - parse_ru_date(e) > 365 THEN dropped
            ELSE exchanged

\* C5 witness: the validation got an end more than 365 days before the start, in
\* another year, and dropped it.
C5_Witness ==
    /\ pc = "format"
    /\ BothParse(order_input[1], order_input[2])
    /\ order_input[1].ys # order_input[2].ys
    /\ parse_ru_date(order_input[1]) - parse_ru_date(order_input[2]) > 365
    /\ hackathon.start_of_hack = order_input[1]
    /\ hackathon.end_of_hack = None_date

\* a date string that is not "<day> <month> <year>" with a day the month has
Unparsable(s) ==
    /\ s # None_date
    /\ \/ Len(s.ys) # 1
       \/ s.d > DaysInMonth(s.ys[1], s.m)

\* C26: when the order validation got a start or an end that cannot be parsed
\* (not three tokens, or a day its month does not have), it raised nothing,
\* the next stage runs, and both fields are as they were before it.
C26_UnparsableLeftAlone ==
    (/\ pc = "format"
     /\ order_input[1] # None_date
     /\ order_input[2] # None_date
     /\ Unparsable(order_input[1]) \/ Unparsable(order_input[2]))
    => /\ hackathon.start_of_hack = order_input[1]
       /\ hackathon.end_of_hack = order_input[2]

\* C26 witness: the start has a day its month does not have, the end parses and
\* lies before the day the start names, and the validation left both alone.
C26_Witness ==
    /\ pc = "format"
    /\ Len(order_input[1].ys) = 1
    /\ order_input[1].d > DaysInMonth(order_input[1].ys[1], order_input[1].m)
    /\ parse_ru_date(order_input[2]) # 0
    /\ order_input[2].ys[1] < order_input[1].ys[1]
    /\ hackathon.start_of_hack = order_input[1]
    /\ hackathon.end_of_hack = order_input[2]

ExtractorPositions ==
    {"name", "locate", "describe", "reg_elem", "event_elem", "reg_text", "event_text",
     "event_generic", "event_desc", "event_any", "format", "prize"}

\* every field that is non-null before the step is the same after it
SetFieldsKept ==
    /\ ~hackathon.name.none => hackathon'.name = hackathon.name
    /\ ~hackathon.task_description.none
          => hackathon'.task_description = hackathon.task_description
    /\ \A f \in DateFields : hackathon[f] # None_date => hackathon'[f] = hackathon[f]
    /\ hackathon.amount_money # None_amount
          => hackathon'.amount_money = hackathon.amount_money
    /\ hackathon.type # None_type => hackathon'.type = hackathon.type

\* C6: a step of an extractor stage leaves every field that is already non-null
\* as it is.
C6_NoOverwrite == [][(pc \in ExtractorPositions) => SetFieldsKept]_vars

ExtractorStages == {"registration", "event", "format", "prize"}
ReconcilerStages == {"validate", "expected_year", "rewrite"}

\* C7: every Year Reconciler step runs after all the field extractors: no
\* extractor stage runs once a reconciler step has run.
C7_ReconcilerLast ==
    \A i \in 1..Len(stages), j \in 1..Len(stages) :
        (i < j /\ stages[i] \in ReconcilerStages) => stages[j] \notin ExtractorStages

(***************************************************************************)
(* Claims about parse_hackathons_page and main (checked under RunSpec)     *)
(***************************************************************************)
LoopLeft == rpc \in {"print", "dump", "done", "failed"}

\* C8: parse_hackathons_page returns normally having processed every link, and
\* every link whose page was fetched and named is in the output, whatever
\* happened to the links before it.
C8_EveryLinkProcessed ==
    /\ rpc # "aborted"
    /\ LoopLeft =>
          /\ idx = Len(links)
          /\ Len(log) = Len(links)
          /\ \A j \in 1..Len(log) : (log[j].fetched /\ log[j].named) => log[j].appended
          /\ Len(hackathons) = Cardinality({j \in 1..Len(log) : log[j].appended})

\* C8 witness: a link was appended after an earlier link failed or raised.
C8_Witness ==
    /\ LoopLeft
    /\ \E i \in 1..Len(log), j \in 1..Len(log) :
          /\ i < j
          /\ log[i].outcome # "ok"
          /\ log[j].appended

\* C9: a run of main that read the listing ends with the JSON document written,
\* holding every record parse_hackathons_page returned.
C9_OutputWritten ==
    rpc \in {"done", "failed"} => (written.ok /\ written.doc = hackathons)

\* C10: every record of the returned collection has a non-null, non-empty name.
C10_NamesNonEmpty ==
    \A i \in 1..Len(hackathons) : Truthy(hackathons[i].name)

\* C11: no two discovered links have the same href, whichever container they
\* were found through, and so no two records of the output have the same url.
C11_NoDuplicateLinks ==
    /\ \A i \in 1..Len(links), j \in 1..Len(links) :
          i # j => links[i].href # links[j].href
    /\ \A i \in 1..Len(hackathons), j \in 1..Len(hackathons) :
          i # j => hackathons[i].url # hackathons[j].url

\* C25: between the request for one page and the request for the next page
\* the pacing delay has elapsed, whether the earlier request succeeded or failed.
C25_DelayBetweenFetches ==
    \A i \in 1..Len(log), j \in 1..Len(log) :
        (i < j /\ log[i].requested /\ log[j].requested)
            => \E k \in i..(j - 1) : log[k].slept

\* what a step may do to the output collection: leave it, or put one record,
\* the one of the link being processed, after the records it holds
OutputGrowsAtEnd ==
    \/ hackathons' = hackathons
    \/ /\ rpc = "loop"
       /\ idx < Len(links)
       /\ idx' = idx + 1
       /\ Len(hackathons') = Len(hackathons) + 1
       /\ SubSeq(hackathons', 1, Len(hackathons)) = hackathons
       /\ hackathons'[Len(hackathons')].url = links[idx + 1].href

\* C12: the output collection only grows by appending at the end, in link
\* discovery order; a record appended is never modified, reordered or removed.
C12_AppendOnly == [][OutputGrowsAtEnd]_vars

\* C12 witness: the run ended with two different records in the output.
C12_Witness ==
    /\ rpc = "done"
    /\ Len(hackathons) = 2
    /\ hackathons[1] # hackathons[2]

\* parse_hackathon_details returned without page content: the url is empty or
\* does not start with http, or fetch_page_content returned nothing
ReturnedWithoutPage ==
    /\ pc = "ret"
    /\ \/ ~fetched
       \/ url = <<>>
       \/ Head(url) \notin {"http:", "https:"}

\* C13: when the fetch fails, or the url is empty or not http/https, the record
\* returned equals the basic info given, field by field, and the caller's
\* basic_info is as it was.
C13_BasicInfoReturned ==
    [][given' = given /\ (ReturnedWithoutPage' => hackathon' = given')]_vars

\* C13 witness: the fetch of an http url failed and the record returned is the
\* basic info of the listing, name included.
C13_Witness ==
    /\ pc = "ret"
    /\ ~fetched
    /\ UrlIsHttp(url)
    /\ Truthy(given.name)
    /\ hackathon = given

(***************************************************************************)
(* Prize phrases: the page text "призовой фонд <amount> <unit> рублей",     *)
(* character by character, as the number group \d[\s\d]*[\d,.]+ of the     *)
(* prize patterns and of extract_money reads it. An amount is the float    *)
(* m * 10^e, m not divisible by 10.                                        *)
(***************************************************************************)
MaxAmountLen == 5

AmountChars == {"0", "1", "5", " ", ","}
AmountUnits == {"", "mln", "tys"}

IsDigitChar(c) == c \in {"0", "1", "2", "3", "4", "5", "6", "7", "8", "9"}

DigitValue(c) ==
    CASE c = "0" -> 0 [] c = "1" -> 1 [] c = "2" -> 2 [] c = "3" -> 3 [] c = "4" -> 4
      [] c = "5" -> 5 [] c = "6" -> 6 [] c = "7" -> 7 [] c = "8" -> 8 [] c = "9" -> 9

AllSpaces(s) == \A x \in 1..Len(s) : s[x] = " "

RECURSIVE LeadingSpaces(_)
LeadingSpaces(s) ==
    IF s # <<>> /\ Head(s) = " " THEN 1 + LeadingSpaces(Tail(s)) ELSE 0

\* (\d[\s\d]*[\d,.]+) matching n[i..k], [\s\d]* taking n[i+1..j]
GroupAt(n, i, j, k) ==
    /\ i <= j /\ j < k /\ k <= Len(n)
    /\ IsDigitChar(n[i])
    /\ \A x \in (i + 1)..j : IsDigitChar(n[x]) \/ n[x] = " "
    /\ \A x \in (j + 1)..k : IsDigitChar(n[x]) \/ n[x] \in {",", "."}

\* \s*(млн|тыс)?\.?\s*(руб|₽|рубл) on what follows the group, the unit and
\* "рублей" coming after the amount
PrizeRestOK(rest, unit) ==
    LET after == SubSeq(rest, LeadingSpaces(rest) + 1, Len(rest))
    IN  \/ AllSpaces(rest)
        \/ unit = "" /\ after # <<>> /\ Head(after) = "." /\ AllSpaces(Tail(after))

\* \s*(млн|тыс)?.{0,5}(руб|₽|рубл) on what follows the group
MoneyRestOK(rest, unit) ==
    \/ AllSpaces(rest)
    \/ unit = "" /\ Len(rest) - LeadingSpaces(rest) + 1 <= 5

\* the <<j, k>> a backtracking match from i can end with
GroupEnds(n, i, unit, rest_ok(_, _)) ==
    {jk \in (i..Len(n)) \X (i..Len(n)) :
        /\ GroupAt(n, i, jk[1], jk[2])
        /\ rest_ok(SubSeq(n, jk[2] + 1, Len(n)), unit)}

\* the one the greedy quantifiers reach first: the longest [\s\d]*, then the
\* longest [\d,.]+
FirstGroupEnd(ends) ==
    CHOOSE jk \in ends :
        \A o \in ends : o[1] < jk[1] \/ (o[1] = jk[1] /\ o[2] <= jk[2])

\* amount_str = group(1).replace(' ', '').replace(',', '.')
RECURSIVE amount_str(_)
amount_str(g) ==
    IF g = <<>> THEN <<>>
    ELSE IF Head(g) = " " THEN amount_str(Tail(g))
    ELSE IF Head(g) = "," THEN <<".">> \o amount_str(Tail(g))
    ELSE <<Head(g)>> \o amount_str(Tail(g))

Dots(s) == Cardinality({x \in 1..Len(s) : s[x] = "."})

RECURSIVE DigitsValue(_)
DigitsValue(s) ==
    IF s = <<>> THEN 0
    ELSE IF s[Len(s)] = "." THEN DigitsValue(SubSeq(s, 1, Len(s) - 1))
    ELSE 10 * DigitsValue(SubSeq(s, 1, Len(s) - 1)) + DigitValue(s[Len(s)])

RECURSIVE Normal(_, _)
Normal(m, e) ==
    IF m = 0 THEN [none |-> FALSE, m |-> 0, e |-> 0]
    ELSE IF m % 10 = 0 THEN Normal(m \div 10, e + 1)
    ELSE [none |-> FALSE, m |-> m, e |-> e]

\* the digits after the decimal point
FractionDigits(s) ==
    IF Dots(s) = 0 THEN 0
    ELSE Len(s) - (CHOOSE x \in 1..Len(s) : s[x] = ".")

\* 1000000 for "млн", 1000 for "тыс", 1 otherwise, as a power of ten
UnitExponent(unit) == IF unit = "mln" THEN 6 ELSE IF unit = "tys" THEN 3 ELSE 0

\* float(amount_str) * multiplier; ValueError leaves nothing found
to_amount(s, unit) ==
    IF Dots(s) > 1 THEN None_found
    ELSE Normal(DigitsValue(s), UnitExponent(unit) - FractionDigits(s))

\* the prize patterns on the phrase: only the first one can match it, with its
\* group starting at the first character after "призовой фонд" and [\s:]*
prize_from_text(n, unit) ==
    LET i == LeadingSpaces(n) + 1
        ends == IF i <= Len(n) THEN GroupEnds(n, i, unit, PrizeRestOK) ELSE {}
    IN  IF ends = {} THEN None_found
        ELSE to_amount(amount_str(SubSeq(n, i, FirstGroupEnd(ends)[2])), unit)

\* extract_money on the phrase: re.search takes the leftmost start that matches
money_from_text(n, unit) ==
    LET starts == {i \in 1..Len(n) : GroupEnds(n, i, unit, MoneyRestOK) # {}}
        i == CHOOSE x \in starts : \A o \in starts : x <= o
    IN  IF starts = {} THEN None_found
        ELSE to_amount(amount_str(SubSeq(n, i,
                 FirstGroupEnd(GroupEnds(n, i, unit, MoneyRestOK))[2])), unit)

DetailIdle ==
    /\ url = <<>>
    /\ given = basic_info("root", Link(<<>>, None_str, None_str, None_str))
    /\ hackathon = basic_info("root", Link(<<>>, None_str, None_str, None_str))
    /\ pc = "idle"
    /\ stages = <<>>
    /\ fetched = FALSE
    /\ main_content_div = FALSE
    /\ expected_year = 0
    /\ reg_shape = NoShape
    /\ order_input = <<None_date, None_date>>
    /\ unique_dates = {}
    /\ event_shape = NoShape

RunIdle ==
    /\ rpc = "idle"
    /\ links = <<>>
    /\ idx = 0
    /\ log = <<>>
    /\ hackathons = <<>>
    /\ written = NothingWritten

PrizeInit ==
    /\ variant = "root"
    /\ curYear = 2026
    /\ DetailIdle
    /\ RunIdle
    /\ FormatIdle
    /\ ListIdle
    /\ CleanIdle
    /\ TeamIdle
    /\ LaterIdle
    /\ amount_text \in SeqsUpTo(AmountChars, MaxAmountLen) \ {<<>>}
    /\ amount_unit \in AmountUnits
    /\ found = None_found
    /\ ppc = "text"

\* the prize stage of parse_hackathon_details on the phrase
ExtractPrizeText ==
    /\ ppc = "text"
    /\ ppc' = "prize"
    /\ found' = prize_from_text(amount_text, amount_unit)
    /\ UNCHANGED <<variant, curYear, detailVars, runVars, amount_text, amount_unit,
                   formatVars, listVars, cleanVars, teamVars, laterVars>>

\* extract_money on the phrase
ExtractMoneyText ==
    /\ ppc = "text"
    /\ ppc' = "money"
    /\ found' = money_from_text(amount_text, amount_unit)
    /\ UNCHANGED <<variant, curYear, detailVars, runVars, amount_text, amount_unit,
                   formatVars, listVars, cleanVars, teamVars, laterVars>>

PrizeNext ==
    \/ ExtractPrizeText
    \/ ExtractMoneyText

PrizeSpec == PrizeInit /\ [][PrizeNext]_vars

(***************************************************************************)
(* Claims about prize phrases (checked under PrizeSpec)                    *)
(***************************************************************************)
AllDigits(n) == \A x \in 1..Len(n) : IsDigitChar(n[x])

\* groups of three digits after a first group of one to three, a space between
RECURSIVE IsGrouped(_)
IsGrouped(n) ==
    IF AllDigits(n) THEN Len(n) \in 1..3
    ELSE /\ Len(n) >= 5
         /\ AllDigits(SubSeq(n, Len(n) - 2, Len(n)))
         /\ n[Len(n) - 3] = " "
         /\ IsGrouped(SubSeq(n, 1, Len(n) - 4))

\* a positive integer written in digits, with or without thousands separators
WrittenInteger(n) ==
    /\ n # <<>>
    /\ IsDigitChar(n[1]) /\ n[1] # "0"
    /\ AllDigits(n) \/ IsGrouped(n)

RECURSIVE IntegerValue(_)
IntegerValue(n) ==
    IF n = <<>> THEN 0
    ELSE IF n[Len(n)] = " " THEN IntegerValue(SubSeq(n, 1, Len(n) - 1))
    ELSE 10 * IntegerValue(SubSeq(n, 1, Len(n) - 1)) + DigitValue(n[Len(n)])

\* C14: for a positive integer n written in digits, "призовой фонд <n> млн
\* рублей" gives n * 1000000, "... <n> тыс рублей" gives n * 1000 and
\* "... <n> рублей" gives n; "1,5 млн рублей" gives 1500000.
C14_AmountTimesUnit ==
    ppc \in {"prize", "money"} =>
        /\ WrittenInteger(amount_text)
              => found = Normal(IntegerValue(amount_text), UnitExponent(amount_unit))
        /\ (amount_text = <<"1", ",", "5">> /\ amount_unit = "mln")
              => found = Normal(1500000, 0)

(***************************************************************************)
(* The format stage on a page whose two text views are given, and the      *)
(* stages after it, for a record on which no date was found.               *)
(***************************************************************************)
\* the stages a fetched record has been through when the format stage starts
StagesBeforeFormat(v) ==
    (IF v = "root" THEN <<"name">> ELSE <<>>)
    \o <<"locate", "describe", "registration", "event", "registration", "event",
         "event", "event", "event", "validate">>

FormatInit ==
    /\ variant \in Variants
    /\ curYear = 2026
    /\ \E l \in {x \in DetailInputs(variant) : UrlIsHttp(x.href)},
          title \in TitleTexts, h1 \in H1Texts :
          /\ url = l.href
          /\ given = basic_info(variant, l)
          /\ hackathon = extract_name(variant, title, h1, l.href, basic_info(variant, l))
    /\ pc = "format"
    /\ stages = StagesBeforeFormat(variant)
    /\ fetched = TRUE
    /\ main_content_div \in BOOLEAN
    /\ expected_year = 0
    /\ reg_shape = NoShape
    /\ order_input = <<None_date, None_date>>
    /\ unique_dates = {}
    /\ event_shape = NoShape
    /\ RunIdle
    /\ PrizeIdle
    /\ ListIdle
    /\ CleanIdle
    /\ TeamIdle
    /\ LaterIdle
    /\ format_content \in ContentFormatSignals
    /\ format_text \in TextFormatSignals

\* the format stage on the given page
DetectFormatOfPage ==
    /\ Step("format", "prize", "format")
    /\ hackathon' = detect_format(main_content_div, format_content, format_text,
                                  hackathon)
    /\ UNCHANGED <<fetched, main_content_div, expected_year, reg_shape, order_input, unique_dates, event_shape>>

FormatNext ==
    \/ DetectFormatOfPage
    \/ ExtractPrize
    \/ Pace
    \/ DetermineExpectedYear
    \/ RewriteYears

FormatSpec == FormatInit /\ [][FormatNext]_vars

\* C15: the format of a returned record whose format was absent before the
\* format stage: an explicit "формат:" declaration in the located content
\* decides; otherwise a "место проведения:" declaration or a whitelisted city
\* there gives offline; otherwise the whole-document keyword search decides;
\* with no signal it stays absent. It is online, offline or absent.
C15_FormatPriority ==
    (pc = "ret" /\ given.type = None_type) =>
        /\ hackathon.type \in {"online", "offline", None_type}
        /\ hackathon.type =
              IF main_content_div /\ format_content = "format_online" THEN "online"
              ELSE IF main_content_div /\ format_content = "format_offline"
                   THEN "offline"
              ELSE IF main_content_div /\ format_content \in {"venue", "city"}
                   THEN "offline"
              ELSE IF format_text # "none" THEN format_text
              ELSE None_type

\* C15 witness: a venue declaration in the located content won over an online
\* keyword elsewhere on the page.
C15_Witness ==
    /\ pc = "ret"
    /\ given.type = None_type
    /\ main_content_div
    /\ format_content = "venue"
    /\ format_text = "online"
    /\ hackathon.type = "offline"

(***************************************************************************)
(* extract_text_with_structure on one list of the located content          *)
(***************************************************************************)
MaxItems == 3

\* a <li>: its attributes and the text its children give, "" when they give none
Item(attrs, text) == [attrs |-> attrs, text |-> text]

Items == {Item(a, t) : a \in {"", "x"}, t \in {"", "a", "b"}}

\* list(parent.find_all('li', recursive=False)).index(node) + 1: the position of
\* the first sibling equal to node, two tags being equal when their name,
\* attributes and contents are
index(siblings, i) == CHOOSE j \in 1..i : siblings[j] = siblings[i] /\
                         \A o \in 1..(j - 1) : siblings[o] # siblings[i]

\* the prefix of the i-th item: "- " under ul, "<index>. " under ol
Line(marker, number, text) == [marker |-> marker, number |-> number, text |-> text]

item_line(name, siblings, i) ==
    IF name = "ul" THEN Line("-", 0, siblings[i].text)
    ELSE Line(".", index(siblings, i), siblings[i].text)

\* "\n".join(items): the items that gave text, in order
RECURSIVE list_lines(_, _, _)
list_lines(name, siblings, n) ==
    IF n = 0 THEN <<>>
    ELSE LET before == list_lines(name, siblings, n - 1)
         IN  IF siblings[n].text # "" THEN Append(before, item_line(name, siblings, n))
             ELSE before

ListInit ==
    /\ variant = "root"
    /\ curYear = 2026
    /\ DetailIdle
    /\ RunIdle
    /\ PrizeIdle
    /\ FormatIdle
    /\ CleanIdle
    /\ TeamIdle
    /\ LaterIdle
    /\ list_name \in {"ul", "ol"}
    /\ list_items \in SeqsUpTo(Items, MaxItems)
    /\ list_text = <<>>
    /\ lpc = "list"

\* extract_text_with_structure(list_element)
ReconstructList ==
    /\ lpc = "list"
    /\ lpc' = "done"
    /\ list_text' = list_lines(list_name, list_items, Len(list_items))
    /\ UNCHANGED <<variant, curYear, detailVars, runVars, prizeVars, formatVars,
                   list_name, list_items, cleanVars, teamVars, laterVars>>

ListNext == ReconstructList

ListSpec == ListInit /\ [][ListNext]_vars

\* the lines the claim describes: "- " before each item of an unordered list,
\* the item's position among its siblings before each item of an ordered one
RECURSIVE PositionLines(_, _, _)
PositionLines(name, siblings, n) ==
    IF n = 0 THEN <<>>
    ELSE LET before == PositionLines(name, siblings, n - 1)
             line == IF name = "ul" THEN Line("-", 0, siblings[n].text)
                     ELSE Line(".", n, siblings[n].text)
         IN  IF siblings[n].text # "" THEN Append(before, line) ELSE before

\* C16: each item of an unordered list is emitted with the prefix "- " and each
\* item of an ordered list with "<k>. ", k its 1-based position among its
\* sibling items, whatever the items hold.
C16_ItemPrefixes ==
    lpc = "done" => list_text = PositionLines(list_name, list_items, Len(list_items))

(***************************************************************************)
(* The cleaning step of extract_description. A description is a sequence   *)
(* of pieces of text:                                                      *)
(*   "reg1" "reg2"   the two halves of "Регистрация открыта"               *)
(*   "sub1" "sub2"   the two halves of "Подписаться"                       *)
(*   "hak" "mir"     "Хакатоны.рус" and "мир хакатонов!"                   *)
(*   "issl"          "Исследования 202<digit>"                             *)
(*   "ao"            "АО «Инновационные интеграторы»"                      *)
(*   "hochesh"       "Хочешь узнавать о новых хакатонах"                   *)
(*   "x"             text that is part of no phrase                        *)
(*   " " "nl"        a space and a newline                                 *)
(***************************************************************************)
MaxPieces == 4

Pieces == {"reg1", "reg2", "sub1", "sub2", "hak", "mir", "issl", "ao", "hochesh",
           "x", " ", "nl"}

\* re.sub of a phrase made of the pieces a, b: every occurrence, left to right
RECURSIVE remove_pair(_, _, _)
remove_pair(d, a, b) ==
    IF d = <<>> THEN <<>>
    ELSE IF Len(d) >= 2 /\ d[1] = a /\ d[2] = b THEN remove_pair(SubSeq(d, 3, Len(d)), a, b)
    ELSE <<d[1]>> \o remove_pair(Tail(d), a, b)

Positions(d, piece) == {i \in 1..Len(d) : d[i] = piece}

Least(S) == CHOOSE i \in S : \A o \in S : i <= o
Greatest(S) == CHOOSE i \in S : \A o \in S : i >= o

\* re.sub(r'Хакатоны\.рус.*?мир\s+хакатонов!', '', d, DOTALL): from each "hak" to
\* the nearest "mir" after it
RECURSIVE remove_banner(_)
remove_banner(d) ==
    IF d = <<>> THEN <<>>
    ELSE IF d[1] = "hak" /\ Positions(d, "mir") # {}
         THEN remove_banner(SubSeq(d, Least(Positions(d, "mir")) + 1, Len(d)))
    ELSE <<d[1]>> \o remove_banner(Tail(d))

\* the first line of d, without its newline
FirstLine(d) ==
    IF Positions(d, "nl") = {} THEN d ELSE SubSeq(d, 1, Least(Positions(d, "nl")) - 1)

\* what follows the first line and its newline
OtherLines(d) == SubSeq(d, Len(FirstLine(d)) + 2, Len(d))

\* re.sub(r'.*Исследования 202[0-9]', '', line): up to the last "issl" of the line
remove_up_to_issl(line) ==
    IF Positions(line, "issl") = {} THEN line
    ELSE SubSeq(line, Greatest(Positions(line, "issl")) + 1, Len(line))

\* the same on every line, '.' not matching a newline
RECURSIVE remove_issl(_)
remove_issl(d) ==
    IF Positions(d, "nl") = {} THEN remove_up_to_issl(d)
    ELSE remove_up_to_issl(FirstLine(d)) \o <<"nl">> \o remove_issl(OtherLines(d))

\* re.sub(r'АО «Инновационные интеграторы».*', '', line): from the first "ao" on
remove_from_ao(line) ==
    IF Positions(line, "ao") = {} THEN line
    ELSE SubSeq(line, 1, Least(Positions(line, "ao")) - 1)

RECURSIVE remove_ao(_)
remove_ao(d) ==
    IF Positions(d, "nl") = {} THEN remove_from_ao(d)
    ELSE remove_from_ao(FirstLine(d)) \o <<"nl">> \o remove_ao(OtherLines(d))

\* re.sub(r'Хочешь узнавать о новых хакатонах.*', '', d, DOTALL)
remove_from_hochesh(d) ==
    IF Positions(d, "hochesh") = {} THEN d
    ELSE SubSeq(d, 1, Least(Positions(d, "hochesh")) - 1)

\* re.sub(r'\n{3,}', '\n\n', d)
RECURSIVE LeadingNewlines(_)
LeadingNewlines(d) ==
    IF d # <<>> /\ d[1] = "nl" THEN 1 + LeadingNewlines(Tail(d)) ELSE 0

RECURSIVE collapse_newlines(_)
collapse_newlines(d) ==
    IF d = <<>> THEN <<>>
    ELSE IF LeadingNewlines(d) >= 3
         THEN <<"nl", "nl">> \o collapse_newlines(SubSeq(d, LeadingNewlines(d) + 1, Len(d)))
    ELSE IF LeadingNewlines(d) >= 1
         THEN SubSeq(d, 1, LeadingNewlines(d))
              \o collapse_newlines(SubSeq(d, LeadingNewlines(d) + 1, Len(d)))
    ELSE <<d[1]>> \o collapse_newlines(Tail(d))

\* str.strip()
RECURSIVE strip(_)
strip(d) ==
    IF d = <<>> THEN <<>>
    ELSE IF d[1] \in {" ", "nl"} THEN strip(Tail(d))
    ELSE IF d[Len(d)] \in {" ", "nl"} THEN strip(SubSeq(d, 1, Len(d) - 1))
    ELSE d

\* the cleaning step: the six removals in their order, the collapsing, the trim
clean(d) ==
    IF d = <<>> THEN d
    ELSE LET d1 == remove_banner(d)
             d2 == remove_pair(d1, "reg1", "reg2")
             d3 == remove_pair(d2, "sub1", "sub2")
             d4 == remove_issl(d3)
             d5 == remove_ao(d4)
             d6 == remove_from_hochesh(d5)
         IN  strip(collapse_newlines(d6))

CleanInit ==
    /\ variant = "root"
    /\ curYear = 2026
    /\ DetailIdle
    /\ RunIdle
    /\ PrizeIdle
    /\ FormatIdle
    /\ ListIdle
    /\ TeamIdle
    /\ LaterIdle
    /\ joined \in SeqsUpTo(Pieces, MaxPieces)
    /\ cleaned = <<>>
    /\ cleaned_again = <<>>
    /\ cpc = "joined"

\* the cleaning step at the end of extract_description
CleanDescription ==
    /\ cpc = "joined"
    /\ cpc' = "cleaned"
    /\ cleaned' = clean(joined)
    /\ UNCHANGED <<variant, curYear, detailVars, runVars, prizeVars, formatVars,
                   listVars, joined, cleaned_again, teamVars, laterVars>>

\* the cleaning step applied to its own result
CleanAgain ==
    /\ cpc = "cleaned"
    /\ cpc' = "again"
    /\ cleaned_again' = clean(cleaned)
    /\ UNCHANGED <<variant, curYear, detailVars, runVars, prizeVars, formatVars,
                   listVars, joined, cleaned, teamVars, laterVars>>

CleanNext ==
    \/ CleanDescription
    \/ CleanAgain

CleanSpec == CleanInit /\ [][CleanNext]_vars

\* C17: the cleaning step applied to an already cleaned description returns it
\* unchanged.
C17_CleanIdempotent == cpc = "again" => cleaned_again = cleaned

(***************************************************************************)
(* Claims about the last-resort event dates (checked under Spec)           *)
(***************************************************************************)
\* the calendar order of two "D Month YYYY" strings: by year, month, day
Earlier(s, t) ==
    \/ s.ys[1] < t.ys[1]
    \/ s.ys[1] = t.ys[1] /\ s.m < t.m
    \/ s.ys[1] = t.ys[1] /\ s.m = t.m /\ s.d < t.d

Earliest(S) == CHOOSE s \in S : \A t \in S \ {s} : Earlier(s, t)
Latest(S) == CHOOSE s \in S : \A t \in S \ {s} : Earlier(t, s)

\* C18: when the last-resort step chose the event dates, after the order
\* validation: with two or more distinct candidate dates the start is the
\* earliest of them and the end the latest; with one, it is the start and the
\* end is absent.
C18_EarliestAndLatest ==
    (pc = "format" /\ unique_dates # {}) =>
        IF Cardinality(unique_dates) >= 2
        THEN /\ hackathon.start_of_hack = Earliest(unique_dates)
             /\ hackathon.end_of_hack = Latest(unique_dates)
        ELSE /\ hackathon.start_of_hack = Earliest(unique_dates)
             /\ hackathon.end_of_hack = None_date

(***************************************************************************)
(* TeamService over the team, hacker and hackathon tables                  *)
(*   src/services/team_service.py, src/repository/team_repository.py       *)
(* TeamSpec : calls of create_team and add_hacker_to_team, one per step.   *)
(* A team row carries the columns the repository writes and reads          *)
(* (owner_id, name, max_size, hackathon_id) and its hackers relationship.  *)
(* Ids are positive numbers, None is 0.                                    *)
(***************************************************************************)
MaxTeams == 2
MaxHackers == 2
MaxSize == 2

TeamIds == 1..MaxTeams
HackerIds == 1..MaxHackers
HackathonIds == {1, 2}
TeamNames == {"a", "b"}
MaxSizes == -1..MaxSize

\* where the database reports a violated constraint of an INSERT: with the
\* statement (an immediate constraint) or with the commit (a deferred one)
IntegrityErrorAt == {"execute", "commit"}

\* select(Team).where(Team.id == team_id).limit(1): the rows it fetches
select_team(rows, team_id) == {r \in rows : r.id = team_id}

\* the constraint behind "a team with this owner and name already exists"
owner_name_taken(rows, owner_id, name) ==
    \E r \in rows : r.owner_id = owner_id /\ r.name = name

\* HackerRepository.get_hacker_by_id, HackathonRepository.get_hackathon_by_id:
\* the row with that id, None when there is none
get_hacker_by_id(hackers, hacker_id) == IF hacker_id \in hackers THEN hacker_id ELSE 0
get_hackathon_by_id(hackathon_table, hackathon_id) ==
    IF hackathon_id \in hackathon_table THEN hackathon_id ELSE 0

\* TeamRepository.create_team: [rows, team_id, raised]
repository_create_team(rows, new_id, owner_id, name, max_size, hackathon_id, at) ==
    IF owner_name_taken(rows, owner_id, name)
    THEN IF at = "execute"
         THEN [rows |-> rows, team_id |-> 0, raised |-> "IntegrityError"]
         ELSE [rows |-> rows, team_id |-> 0, raised |-> ""]
    ELSE [rows |-> rows \cup {[id |-> new_id, owner_id |-> owner_id, name |-> name,
                               max_size |-> max_size, hackathon_id |-> hackathon_id,
                               hackers |-> {}]},
          team_id |-> new_id, raised |-> ""]

\* TeamRepository.add_hacker_to_team: [rows, team, hackers, status], team and
\* hackers being the id and the members of the returned Team (0, {} for None)
repository_add_hacker_to_team(rows, hackers, team_id, hacker, commit_ok) ==
    LET row == select_team(rows, team_id)
        none(status) == [rows |-> rows, team |-> 0, hackers |-> {}, status |-> status]
    IN  IF row = {} THEN none(-1)
        ELSE LET team == CHOOSE r \in row : TRUE
                 appended == [team EXCEPT !.hackers = @ \cup {hacker}]
             IN  IF hacker \in team.hackers
                 THEN [rows |-> rows, team |-> team.id, hackers |-> team.hackers,
                       status |-> -4]
                 ELSE IF Cardinality(team.hackers) >= team.max_size
                 THEN none(-2)
                 ELSE IF hacker \notin hackers THEN none(-2)
                 ELSE IF commit_ok
                 THEN [rows |-> (rows \ {team}) \cup {appended}, team |-> team.id,
                       hackers |-> appended.hackers, status |-> 1]
                 ELSE none(-5)

\* TeamService.add_hacker_to_team
add_hacker_to_team(rows, hackers, team_id, hacker_id, commit_ok) ==
    LET hacker == get_hacker_by_id(hackers, hacker_id)
    IN  IF hacker = 0
        THEN [rows |-> rows, team |-> 0, hackers |-> {}, status |-> -2]
        ELSE repository_add_hacker_to_team(rows, hackers, team_id, hacker, commit_ok)

\* TeamService.create_team: [rows, id, status, raised]
create_team(rows, hackers, hackathon_table, new_id, owner_id, name, max_size, hackathon_id, at, commit_ok) ==
    IF max_size <= 0
    THEN [rows |-> rows, id |-> 0, status |-> -1, raised |-> ""]
    ELSE IF get_hackathon_by_id(hackathon_table, hackathon_id) = 0
    THEN [rows |-> rows, id |-> 0, status |-> -3, raised |-> ""]
    ELSE LET created == repository_create_team(rows, new_id, owner_id, name, max_size,
                                               hackathon_id, at)
             hacker == get_hacker_by_id(hackers, owner_id)
         IN  IF created.raised # ""
             THEN [rows |-> rows, id |-> 0, status |-> 0, raised |-> created.raised]
             ELSE IF created.team_id = 0
             THEN [rows |-> rows, id |-> 0, status |-> -2, raised |-> ""]
             ELSE IF hacker = 0
             THEN [rows |-> created.rows, id |-> created.team_id, status |-> 1,
                   raised |-> ""]
             ELSE [rows |-> repository_add_hacker_to_team(created.rows, hackers,
                                created.team_id, hacker, commit_ok).rows,
                   id |-> created.team_id, status |-> 1, raised |-> ""]

\* the primary key the database gives a new team row
inserted_primary_key(rows) == CHOOSE i \in TeamIds : select_team(rows, i) = {}

TeamInit ==
    /\ variant = "root"
    /\ curYear = 2026
    /\ DetailIdle
    /\ RunIdle
    /\ PrizeIdle
    /\ FormatIdle
    /\ ListIdle
    /\ CleanIdle
    /\ LaterIdle
    /\ team_rows = {}
    /\ hacker_rows \in SUBSET HackerIds
    /\ hackathon_rows \in (SUBSET HackathonIds) \ {{}}
    /\ team_call = NoCall

CreateTeam ==
    /\ \E i \in TeamIds : select_team(team_rows, i) = {}
    /\ \E owner_id \in HackerIds, name \in TeamNames, max_size \in MaxSizes,
          hackathon_id \in HackathonIds, at \in IntegrityErrorAt, commit_ok \in BOOLEAN :
          LET out == create_team(team_rows, hacker_rows, hackathon_rows,
                                 inserted_primary_key(team_rows), owner_id, name,
                                 max_size, hackathon_id, at, commit_ok)
          IN  /\ team_rows' = out.rows
              /\ team_call' = [NoCall EXCEPT !.op = "create_team",
                                  !.owner_id = owner_id, !.name = name,
                                  !.max_size = max_size, !.hackathon_id = hackathon_id,
                                  !.raised = out.raised, !.id = out.id,
                                  !.status = out.status]
    /\ UNCHANGED <<hacker_rows, hackathon_rows>>
    /\ UNCHANGED <<variant, curYear, detailVars, runVars, prizeVars, formatVars, listVars,
                   cleanVars, laterVars>>

AddHackerToTeam ==
    /\ \E team_id \in TeamIds, hacker_id \in HackerIds, commit_ok \in BOOLEAN :
          LET out == add_hacker_to_team(team_rows, hacker_rows, team_id, hacker_id,
                                        commit_ok)
          IN  /\ team_rows' = out.rows
              /\ team_call' = [NoCall EXCEPT !.op = "add_hacker_to_team",
                                  !.team_id = team_id, !.hacker_id = hacker_id,
                                  !.team = out.team, !.hackers = out.hackers,
                                  !.status = out.status]
    /\ UNCHANGED <<hacker_rows, hackathon_rows>>
    /\ UNCHANGED <<variant, curYear, detailVars, runVars, prizeVars, formatVars, listVars,
                   cleanVars, laterVars>>

TeamNext ==
    \/ CreateTeam
    \/ AddHackerToTeam

TeamSpec == TeamInit /\ [][TeamNext]_vars

(***************************************************************************)
(* Claims about TeamService (checked under TeamSpec)                       *)
(***************************************************************************)
\* the row of the team a call names, as the tables held it before the call
TeamBefore(c) == select_team(team_rows, c.team_id)
IsMember(c) == \E r \in TeamBefore(c) : c.hacker_id \in r.hackers
IsFull(c) == \E r \in TeamBefore(c) : Cardinality(r.hackers) >= r.max_size

\* C19: add_hacker_to_team answers -2 for a missing hacker, -1 for a missing
\* team, -4 for a hacker already in the team, -3 for a full team and -5 when
\* saving fails; it answers 1, with the team now holding the hacker, exactly
\* when the team exists, is not full and the hacker was not yet in it (and the
\* save went through).
C19_StatusPerCause ==
    [][team_call'.op = "add_hacker_to_team" =>
         LET c == team_call'
             hacker_exists == c.hacker_id \in hacker_rows
             team_exists == TeamBefore(c) # {}
         IN  /\ ~hacker_exists => c.status = -2
             /\ hacker_exists /\ ~team_exists => c.status = -1
             /\ hacker_exists /\ IsMember(c) => c.status = -4
             /\ hacker_exists /\ ~IsMember(c) /\ IsFull(c) => c.status = -3
             /\ hacker_exists /\ team_exists /\ ~IsMember(c) /\ ~IsFull(c)
                    => c.status \in {1, -5}
             /\ c.status = 1 =>
                    /\ team_exists /\ ~IsMember(c) /\ ~IsFull(c)
                    /\ c.team = c.team_id
                    /\ c.hacker_id \in c.hackers
                    /\ \E r \in team_rows' : r.id = c.team_id /\ c.hacker_id \in r.hackers
             /\ c.status = -5 => team_rows' = team_rows]_vars

\* C20: create_team answers (None, -1) for max_size <= 0, else (None, -3) for
\* a missing hackathon, else (None, -2) when a team with that owner and name
\* exists; in the three cases the team table is left as it was.
C20_RejectedInOrder ==
    [][team_call'.op = "create_team" =>
         LET c == team_call'
             rejected(status) ==
                 /\ c.raised = ""
                 /\ c.id = 0
                 /\ c.status = status
                 /\ team_rows' = team_rows
             hackathon_exists == c.hackathon_id \in hackathon_rows
         IN  /\ c.max_size <= 0 => rejected(-1)
             /\ c.max_size > 0 /\ ~hackathon_exists => rejected(-3)
             /\ c.max_size > 0 /\ hackathon_exists
                  /\ owner_name_taken(team_rows, c.owner_id, c.name) => rejected(-2)]_vars

\* C28: whenever create_team returns a team id with status 1, the team table
\* holds a team with that id and the owner is among its hackers.
C28_OwnerIsMember ==
    [][(team_call'.op = "create_team" /\ team_call'.status = 1 /\ team_call'.id # 0) =>
         \E r \in team_rows' :
            /\ r.id = team_call'.id
            /\ team_call'.owner_id \in r.hackers]_vars

(***************************************************************************)
(* The event-date element "дата проведения: D Month, HH:MM-HH:MM"          *)
(* TimedSpec : parse_hackathon_details from the event-date elements on,    *)
(* for a page whose element has that phrasing, with or without a year      *)
(* 2020-2039 in the element, and whose elements held no registration date. *)
(***************************************************************************)
TimedShapes == {sh \in EventElementShapes : MatchSingleTime(sh)}

\* the stages a fetched record has been through when the event-date elements
\* are read
StagesBeforeEventElements(v) ==
    (IF v = "root" THEN <<"name">> ELSE <<>>) \o <<"locate", "describe", "registration">>

TimedInit ==
    /\ variant \in Variants
    /\ curYear \in CurrentYears
    /\ main_content_div \in BOOLEAN
    /\ \E l \in {x \in DetailInputs(variant) : UrlIsHttp(x.href)},
          title \in TitleTexts, h1 \in H1Texts, description \in {<<>>, <<"page">>} :
          /\ url = l.href
          /\ given = basic_info(variant, l)
          /\ hackathon = describe(main_content_div, description,
                            extract_name(variant, title, h1, l.href, basic_info(variant, l)))
    /\ pc = "event_elem"
    /\ stages = StagesBeforeEventElements(variant)
    /\ fetched = TRUE
    /\ expected_year = 0
    /\ reg_shape = NoShape
    /\ order_input = <<None_date, None_date>>
    /\ unique_dates = {}
    /\ event_shape = NoShape
    /\ RunIdle
    /\ PrizeIdle
    /\ FormatIdle
    /\ ListIdle
    /\ CleanIdle
    /\ TeamIdle
    /\ LaterIdle

\* the event-date elements of the given page
TimedEventElements ==
    /\ Step("event_elem", "reg_text", "event")
    /\ \E sh \in TimedShapes :
          /\ hackathon' = event_elements(variant, curYear, sh, hackathon)
          /\ event_shape' = sh
    /\ UNCHANGED <<fetched, main_content_div, expected_year, reg_shape, order_input,
                   unique_dates>>

TimedNext ==
    \/ TimedEventElements
    \/ RegistrationText
    \/ EventText
    \/ EventGeneric
    \/ EventDescription
    \/ EventAnyDates
    \/ ValidateOrder
    \/ DetectFormat
    \/ ExtractPrize
    \/ Pace
    \/ DetermineExpectedYear
    \/ RewriteYears

TimedSpec == TimedInit /\ [][TimedNext]_vars

(***************************************************************************)
(* Claims about the timed event date (checked under TimedSpec)             *)
(***************************************************************************)
\* C21: a record returned for a page whose event-date element reads
\* "D Month, HH:MM-HH:MM" and holds a year 2020-2039, the name carrying no
\* year, has the event start "D Month <that year>".
C21_NearbyYearUsed ==
    (/\ Returned
     /\ event_shape.k = "single_time"
     /\ event_shape.near # 0
     /\ YearOfName = 0)
    => hackathon.start_of_hack = WithYear(event_shape.a, event_shape.near)

(***************************************************************************)
(* The prize stage on a page that names prizes by place                    *)
(* PlaceSpec : the prize patterns and the doubling of a first-place prize  *)
(* on a page text.  The text is a sequence of pieces: "priz" the word      *)
(* "приз", "1" the digit, "sp" one space, "mesto" the word "место", "e"    *)
(* the ending "-е", "amt" the amount "500 руб", "second" the phrase        *)
(* "2 место " and "third" the phrase "3 место ".                           *)
(***************************************************************************)
MaxTokens == 5

BodyTokens == {"priz", "1", "sp", "mesto", "e", "amt"}
Tokens == BodyTokens \cup {"second", "third"}

\* the mentions of the other places a page holds before and after its body
MentionsBefore == {<<>>, <<"second">>, <<"third">>, <<"second", "third">>}
MentionsAfter == {<<>>, <<"third">>}

IsDigitToken(x) == x = "1"

\* the first position at or after i whose piece is not in S, Len(t) + 1 if none
RECURSIVE SkipWhile(_, _, _)
SkipWhile(t, i, S) ==
    IF i > Len(t) \/ t[i] \notin S THEN i ELSE SkipWhile(t, i + 1, S)

\* (\d[\s\d]*[\d,.]+)\s*(?:руб|...) started at position i: the position of the
\* amount that ends it, 0 when the number does not reach a currency word
number_end(t, i) ==
    IF i > Len(t) THEN 0
    ELSE IF t[i] = "amt" THEN i
    ELSE IF ~IsDigitToken(t[i]) THEN 0
    ELSE LET j == SkipWhile(t, i, {"1", "sp"})
         IN  IF j <= Len(t) /\ t[j] = "amt" THEN j ELSE 0

\* float(group(1).replace(' ', '')) for the number from position i to the amount at j
RECURSIVE number_value(_, _, _, _)
number_value(t, i, j, acc) ==
    IF i = j THEN acc * 1000 + 500
    ELSE number_value(t, i + 1, j,
                      IF t[i] = "1" THEN acc * 10 + 1 ELSE acc)

NoMatch == [from |-> 0, to |-> 0, amount |-> 0]

\* pattern 1 at position s: "приз", [\s:]*, the number, the currency word
keyword_first_at(t, s) ==
    IF t[s] # "priz" THEN NoMatch
    ELSE LET i == SkipWhile(t, s + 1, {"sp"})
             j == number_end(t, i)
         IN  IF j = 0 THEN NoMatch
             ELSE [from |-> s, to |-> j, amount |-> number_value(t, i, j, 0)]

\* pattern 2 at position i: the number, the currency word, .*?, "приз"
amount_first_at(t, i) ==
    LET j == number_end(t, i)
    IN  IF j = 0 THEN NoMatch
        ELSE LET k == SkipWhile(t, j + 1, Tokens \ {"priz"})
             IN  IF k > Len(t) THEN NoMatch
                 ELSE [from |-> i, to |-> k, amount |-> number_value(t, i, j, 0)]

\* pattern 4 at position s: 1, \s*, "место", [^\d]*, the number, the currency word
first_place_at(t, s) ==
    IF t[s] # "1" THEN NoMatch
    ELSE LET m == SkipWhile(t, s + 1, {"sp"})
         IN  IF m > Len(t) \/ t[m] # "mesto" THEN NoMatch
             ELSE LET i == SkipWhile(t, m + 1, {"sp", "mesto", "priz", "e"})
                      j == number_end(t, i)
                  IN  IF j = 0 THEN NoMatch
                      ELSE [from |-> s, to |-> j, amount |-> number_value(t, i, j, 0)]

\* re.search: the match at the leftmost position that has one
RECURSIVE SearchKeywordFirst(_, _)
SearchKeywordFirst(t, s) ==
    IF s > Len(t) THEN NoMatch
    ELSE IF keyword_first_at(t, s) # NoMatch THEN keyword_first_at(t, s)
    ELSE SearchKeywordFirst(t, s + 1)

RECURSIVE SearchAmountFirst(_, _)
SearchAmountFirst(t, s) ==
    IF s > Len(t) THEN NoMatch
    ELSE IF amount_first_at(t, s) # NoMatch THEN amount_first_at(t, s)
    ELSE SearchAmountFirst(t, s + 1)

RECURSIVE SearchFirstPlace(_, _)
SearchFirstPlace(t, s) ==
    IF s > Len(t) THEN NoMatch
    ELSE IF first_place_at(t, s) # NoMatch THEN first_place_at(t, s)
    ELSE SearchFirstPlace(t, s + 1)

\* for pattern in prize_patterns: the first pattern that matches
prize_match(t) ==
    IF SearchKeywordFirst(t, 1) # NoMatch THEN SearchKeywordFirst(t, 1)
    ELSE IF SearchAmountFirst(t, 1) # NoMatch THEN SearchAmountFirst(t, 1)
    ELSE SearchFirstPlace(t, 1)

\* "1 место" in group(0) or "1-е место" in group(0)
first_place_in_match(t, m) ==
    \E i \in m.from..m.to :
       \/ i + 2 <= m.to /\ t[i] = "1" /\ t[i + 1] = "sp" /\ t[i + 2] = "mesto"
       \/ i + 3 <= m.to /\ t[i] = "1" /\ t[i + 1] = "e" /\ t[i + 2] = "sp"
             /\ t[i + 3] = "mesto"

\* re.search(r'2\s*место', all_text), re.search(r'3\s*место', all_text)
place_in_text(t, place) == \E i \in 1..Len(t) : t[i] = place

double_when_first_only(t, m) == first_place_in_match(t, m)

\* the condition under which prize_amount is multiplied by 2
double_when(t, m) ==
    first_place_in_match(t, m) /\ place_in_text(t, "second") /\ place_in_text(t, "third")

\* the prize stage: what hackathon['amount_money'] holds after it
prize_of_page(t) ==
    LET m == prize_match(t)
    IN  IF m = NoMatch THEN None_amount
        ELSE IF double_when(t, m) THEN m.amount * 2
        ELSE m.amount

PlaceInit ==
    /\ variant = "root"
    /\ curYear = 2026
    /\ DetailIdle
    /\ RunIdle
    /\ PrizeIdle
    /\ FormatIdle
    /\ ListIdle
    /\ CleanIdle
    /\ TeamIdle
    /\ SplitIdle
    /\ WalkIdle
    /\ ConcIdle
    /\ \E before \in MentionsBefore, body \in SeqsUpTo(BodyTokens, MaxTokens),
          after \in MentionsAfter : page_text = before \o body \o after
    /\ prize_amount = None_amount
    /\ zpc = "page"

ExtractPlacePrize ==
    /\ zpc = "page"
    /\ prize_amount' = prize_of_page(page_text)
    /\ zpc' = "done"
    /\ UNCHANGED <<variant, curYear, detailVars, runVars, prizeVars, formatVars, listVars,
                   cleanVars, teamVars, page_text, splitVars, walkVars,
                   concVars>>

PlaceNext == ExtractPlacePrize

PlaceSpec == PlaceInit /\ [][PlaceNext]_vars

(***************************************************************************)
(* The sentence-splitting pass of extract_description                      *)
(* SplitSpec : the pass on one block.  A block is a sequence of pieces:    *)
(* "long" 21 lowercase letters, "a" one lowercase letter, "A" one capital  *)
(* Russian letter, "." a full stop, " " one space, "dash" the list         *)
(* marker "- " a block may start with.                                     *)
(***************************************************************************)
MaxSegment == 2
MinLength == 20

Segments == SeqsUpTo({"long", "a", "A"}, MaxSegment)
Separators == {<<>>, <<".">>, <<".", " ">>, <<".", " ", " ">>}
Markers == {<<>>, <<"dash">>}

\* len(s)
RECURSIVE len(_)
len(s) ==
    IF s = <<>> THEN 0
    ELSE (IF Head(s) = "long" THEN 21 ELSE IF Head(s) = "dash" THEN 2 ELSE 1) + len(Tail(s))

\* block.startswith('- ') or re.match(r'^\d+\.\s+', block)
is_list_item(b) == b # <<>> /\ Head(b) = "dash"

\* the position of the capital letter that ends a match of \.\s+[А-Я] starting
\* at i, 0 when there is no match at i
boundary_at(b, i) ==
    IF b[i] # "." THEN 0
    ELSE LET j == SkipWhile(b, i + 1, {" "})
         IN  IF j > i + 1 /\ j <= Len(b) /\ b[j] = "A" THEN j ELSE 0

\* re.split(r'(\.\s+[А-Я])', block): the texts and the separators, in turn;
\* from is where the current text began, i the position looked at
RECURSIVE re_split(_, _, _)
re_split(b, from, i) ==
    IF i > Len(b) THEN <<SubSeq(b, from, Len(b))>>
    ELSE IF boundary_at(b, i) # 0
         THEN <<SubSeq(b, from, i - 1), SubSeq(b, i, boundary_at(b, i))>>
              \o re_split(b, boundary_at(b, i) + 1, boundary_at(b, i) + 1)
    ELSE re_split(b, from, i + 1)

\* sentence.strip()
split_strip(s) == strip(s)

\* the loop over range(0, len(sentences), 2)
RECURSIVE reconstruct(_, _)
reconstruct(sentences, i) ==
    IF i > Len(sentences) THEN <<>>
    ELSE LET sentence == IF i + 1 <= Len(sentences)
                         THEN sentences[i] \o sentences[i + 1]
                         ELSE sentences[i]
         IN  (IF split_strip(sentence) # <<>> THEN <<split_strip(sentence)>> ELSE <<>>)
             \o reconstruct(sentences, i + 2)

long_enough_always(s) == TRUE

\* len(s) > 20
long_enough(s) == len(s) > MinLength

\* what the pass appends to processed_blocks for a block
split_block(b) ==
    IF is_list_item(b) THEN <<b>>
    ELSE LET sentences == re_split(b, 1, 1)
             reconstructed == reconstruct(sentences, 1)
         IN  IF Len(sentences) > 2
             THEN IF Len(reconstructed) > 1
                     /\ \A k \in 1..Len(reconstructed) : long_enough(reconstructed[k])
                  THEN reconstructed
                  ELSE <<b>>
             ELSE <<b>>

SplitInit ==
    /\ variant = "root"
    /\ curYear = 2026
    /\ DetailIdle
    /\ RunIdle
    /\ PrizeIdle
    /\ FormatIdle
    /\ ListIdle
    /\ CleanIdle
    /\ TeamIdle
    /\ PlaceIdle
    /\ WalkIdle
    /\ ConcIdle
    /\ \E m \in Markers, s1 \in Segments, p1 \in Separators, s2 \in Segments,
          p2 \in Separators, s3 \in Segments :
          block = m \o s1 \o p1 \o s2 \o p2 \o s3
    /\ block # <<>>
    /\ block[Len(block)] # " "
    /\ processed_blocks = <<>>
    /\ spc = "block"

SplitBlock ==
    /\ spc = "block"
    /\ processed_blocks' = split_block(block)
    /\ spc' = "done"
    /\ UNCHANGED <<variant, curYear, detailVars, runVars, prizeVars, formatVars, listVars,
                   cleanVars, teamVars, placeVars, walkVars, concVars,
                   block>>

SplitNext == SplitBlock

SplitSpec == SplitInit /\ [][SplitNext]_vars

(***************************************************************************)
(* The text collection of extract_description                              *)
(* WalkSpec : the two passes over the children of the content container    *)
(* and the fallback.  A child is <p>, <span> or <ul>, with or without a    *)
(* class of the navigation vocabulary; it holds up to MaxInner nodes: a    *)
(* text node, a <div class="nav"> with text or a <span> with text (inside  *)
(* <ul> each node is wrapped in its own <li>, the class sitting on the     *)
(* <li>).  A collected text is "body" when no element around it has a      *)
(* class of the vocabulary and "chrome" when one has.                      *)
(***************************************************************************)
MaxChildren == 2
MaxInner == 2

Inners == {"text", "nav", "span"}

Child(name, nav, inner) == [name |-> name, nav |-> nav, inner |-> inner]

Children ==
    {Child(name, nav, inner) :
        name \in {"p", "span", "ul"}, nav \in BOOLEAN, inner \in SeqsUpTo(Inners, MaxInner)}

\* extract_text_with_structure on the nodes a <p> holds: the texts it joins
RECURSIVE block_texts(_)
block_texts(inner) ==
    IF inner = <<>> THEN <<>>
    ELSE (IF Head(inner) = "text" THEN <<"body">> ELSE <<>>) \o block_texts(Tail(inner))

\* extract_text_with_structure on the items of a <ul>: the lines it joins;
\* an <li> holding a <span> makes " ".join(...) raise TypeError
RECURSIVE list_texts(_)
list_texts(inner) ==
    IF inner = <<>> THEN <<>>
    ELSE (IF Head(inner) = "text" THEN <<"body">> ELSE <<>>) \o list_texts(Tail(inner))

list_raises(inner) == \E i \in 1..Len(inner) : inner[i] = "span"

\* the first pass: the block elements among the children, those with a class
\* of the vocabulary skipped
RECURSIVE first_pass(_)
first_pass(body) ==
    IF body = <<>> THEN <<>>
    ELSE (IF Head(body).name = "p" /\ ~Head(body).nav
          THEN block_texts(Head(body).inner) ELSE <<>>)
         \o first_pass(Tail(body))

\* the second pass: the lists among the children
RECURSIVE second_pass(_)
second_pass(body) ==
    IF body = <<>> THEN <<>>
    ELSE (IF Head(body).name = "ul" /\ ~Head(body).nav
          THEN list_texts(Head(body).inner) ELSE <<>>)
         \o second_pass(Tail(body))

second_pass_raises(body) ==
    \E i \in 1..Len(body) :
       body[i].name = "ul" /\ ~body[i].nav /\ list_raises(body[i].inner)

\* article_body.get_text(separator='\n', strip=True): every text of the container
RECURSIVE inner_texts(_, _)
inner_texts(inner, nav) ==
    IF inner = <<>> THEN <<>>
    ELSE <<IF nav \/ Head(inner) = "nav" THEN "chrome" ELSE "body">>
         \o inner_texts(Tail(inner), nav)

RECURSIVE get_text(_)
get_text(body) ==
    IF body = <<>> THEN <<>>
    ELSE inner_texts(Head(body).inner, Head(body).nav) \o get_text(Tail(body))

\* the fallback, used when the two passes collected nothing
fallback(body) == get_text(body)

\* all_text after the two passes and the fallback
collect(body) ==
    IF second_pass_raises(body) THEN <<"TypeError">>
    ELSE IF first_pass(body) \o second_pass(body) # <<>>
         THEN first_pass(body) \o second_pass(body)
    ELSE fallback(body)

WalkInit ==
    /\ variant = "root"
    /\ curYear = 2026
    /\ DetailIdle
    /\ RunIdle
    /\ PrizeIdle
    /\ FormatIdle
    /\ ListIdle
    /\ CleanIdle
    /\ TeamIdle
    /\ PlaceIdle
    /\ SplitIdle
    /\ ConcIdle
    /\ article_body \in SeqsUpTo(Children, MaxChildren)
    /\ all_text = <<>>
    /\ npc = "body"

CollectText ==
    /\ npc = "body"
    /\ all_text' = collect(article_body)
    /\ npc' = "done"
    /\ UNCHANGED <<variant, curYear, detailVars, runVars, prizeVars, formatVars, listVars,
                   cleanVars, teamVars, placeVars, splitVars, concVars,
                   article_body>>

WalkNext == CollectText

WalkSpec == WalkInit /\ [][WalkNext]_vars

(***************************************************************************)
(* Concurrent calls of TeamRepository.add_hacker_to_team on one team       *)
(* ConcSpec : every call runs in a session of its own and gives way to the *)
(* others at each await: after reading the team with its hackers, after    *)
(* reading the hacker, and at the commit.                                  *)
(***************************************************************************)
MaxSessions == 2

Sessions == 1..MaxSessions

\* the team the calls are made on
TheTeam == CHOOSE i \in TeamIds : TRUE

Session(at, hacker, status) == [pc |-> at, hacker |-> hacker, status |-> status]

\* the team is read and its hackers are compared with the hacker and with
\* max_size: the status to return, or 0 to go on
select_and_check(rows, team_id, hacker) ==
    LET row == select_team(rows, team_id)
    IN  IF row = {} THEN -1
        ELSE LET team == CHOOSE r \in row : TRUE
             IN  IF hacker \in team.hackers THEN -4
                 ELSE IF Cardinality(team.hackers) >= team.max_size THEN -2
                 ELSE 0

\* the hacker is read in this session: the status to return, or 0 to go on
select_hacker(hackers, hacker) == IF hacker \in hackers THEN 0 ELSE -2

\* a variant that leaves the appended member in place when the commit fails
append_and_commit_no_rollback(rows, team_id, hacker, commit_ok) ==
    [rows |-> {IF r.id = team_id THEN [r EXCEPT !.hackers = @ \cup {hacker}] ELSE r :
                  r \in rows},
     status |-> IF commit_ok THEN 1 ELSE -5]

\* team.hackers.append(hacker_obj) and the commit, which inserts the pair into
\* the association table, or the rollback: [rows, status]
append_and_commit(rows, team_id, hacker, commit_ok) ==
    IF commit_ok
    THEN [rows |-> {IF r.id = team_id THEN [r EXCEPT !.hackers = @ \cup {hacker}] ELSE r :
                       r \in rows},
          status |-> 1]
    ELSE [rows |-> rows, status |-> -5]

ConcInit ==
    /\ variant = "root"
    /\ curYear = 2026
    /\ DetailIdle
    /\ RunIdle
    /\ PrizeIdle
    /\ FormatIdle
    /\ ListIdle
    /\ CleanIdle
    /\ PlaceIdle
    /\ SplitIdle
    /\ WalkIdle
    /\ hacker_rows \in SUBSET HackerIds
    /\ hackathon_rows = {TheTeam}
    /\ team_call = NoCall
    /\ \/ team_rows = {}
       \/ \E max_size \in 1..MaxSize, hackers \in SUBSET hacker_rows :
             /\ Cardinality(hackers) <= max_size
             /\ team_rows = {[id |-> TheTeam, owner_id |-> 1, name |-> "a",
                              max_size |-> max_size, hackathon_id |-> TheTeam,
                              hackers |-> hackers]}
    /\ sessions = [s \in Sessions |-> Session("called", 0, 0)]

ConcStep(s, to) ==
    /\ sessions' = [sessions EXCEPT ![s] = to]
    /\ UNCHANGED <<variant, curYear, detailVars, runVars, prizeVars, formatVars, listVars,
                   cleanVars, placeVars, splitVars, walkVars, hacker_rows, hackathon_rows,
                   team_call>>

\* the call up to its second await
SelectTeam(s) ==
    /\ sessions[s].pc = "called"
    /\ \E hacker \in HackerIds :
          LET status == select_and_check(team_rows, TheTeam, hacker)
          IN  ConcStep(s, Session(IF status = 0 THEN "selected" ELSE "returned",
                                  hacker, status))
    /\ UNCHANGED team_rows

\* from there up to the commit
SelectHacker(s) ==
    /\ sessions[s].pc = "selected"
    /\ LET status == select_hacker(hacker_rows, sessions[s].hacker)
       IN  ConcStep(s, Session(IF status = 0 THEN "appended" ELSE "returned",
                               sessions[s].hacker, status))
    /\ UNCHANGED team_rows

\* the commit and the return
Commit(s) ==
    /\ sessions[s].pc = "appended"
    /\ \E commit_ok \in BOOLEAN :
          LET out == append_and_commit(team_rows, TheTeam, sessions[s].hacker, commit_ok)
          IN  /\ team_rows' = out.rows
              /\ ConcStep(s, Session("returned", sessions[s].hacker, out.status))

ConcNext ==
    \E s \in Sessions :
       \/ SelectTeam(s)
       \/ SelectHacker(s)
       \/ Commit(s)

ConcSpec == ConcInit /\ [][ConcNext]_vars

(***************************************************************************)
(* Claims about the first-place prize (checked under PlaceSpec)            *)
(***************************************************************************)
\* the number the matched prize phrase holds, times its unit multiplier
ParsedAmount == prize_match(page_text).amount

\* the matched phrase holds "1 место" or "1-е место"
FirstPlaceMatched == first_place_in_match(page_text, prize_match(page_text))

OtherPlacesOnPage == place_in_text(page_text, "second") /\ place_in_text(page_text, "third")

NumBoundaries(b) == Cardinality({i \in 1..Len(b) : boundary_at(b, i) # 0})

\* the non-empty fragments the pass cuts a block into
Fragments(b) == reconstruct(re_split(b, 1, 1), 1)

AllLong(fs) == \A k \in 1..Len(fs) : len(fs[k]) > MinLength

EmittedIntact == processed_blocks = <<block>>

\* C23 as claimed: a block that is not a list item is split only if it holds
\* the boundary in more than one place and every fragment is longer than 20
\* characters; with exactly one boundary, or a fragment of 20 characters or
\* fewer, it is emitted intact.
C23_SplitNeedsTwoBoundaries ==
    (spc = "done" /\ ~is_list_item(block)) =>
        /\ ~EmittedIntact => NumBoundaries(block) > 1 /\ AllLong(processed_blocks)
        /\ NumBoundaries(block) = 1 => EmittedIntact
        /\ ~AllLong(Fragments(block)) => EmittedIntact

\* C23 as amended: a block that is not a list item is split exactly when it
\* holds the boundary in at least one place, is cut into more than one
\* non-empty fragment and every fragment is longer than 20 characters;
\* otherwise it is emitted intact.
C23_SplitWhen ==
    (spc = "done" /\ ~is_list_item(block)) =>
        /\ ~EmittedIntact =>
              /\ NumBoundaries(block) >= 1
              /\ Len(processed_blocks) > 1
              /\ AllLong(processed_blocks)
        /\ NumBoundaries(block) = 0 => EmittedIntact
        /\ ~AllLong(Fragments(block)) => EmittedIntact
        /\ (/\ NumBoundaries(block) >= 1
            /\ Len(Fragments(block)) > 1
            /\ AllLong(Fragments(block))) => ~EmittedIntact

C23_Witness ==
    /\ spc = "done"
    /\ ~is_list_item(block)
    /\ NumBoundaries(block) = 1
    /\ Len(processed_blocks) = 2

\* C30: when the pass commits a split, every fragment after the first begins
\* with the capital letter that followed the boundary and every fragment
\* except the last ends with the full stop of its sentence.
C30_NoCharacterMoves ==
    (spc = "done" /\ Len(processed_blocks) > 1) =>
        \A k \in 1..Len(processed_blocks) :
           /\ k > 1 => Head(processed_blocks[k]) = "A"
           /\ k < Len(processed_blocks)
                 => processed_blocks[k][Len(processed_blocks[k])] = "."

(***************************************************************************)
(* Claims about the text collection (checked under WalkSpec)               *)
(***************************************************************************)
\* C24: no text that lies inside an element with a class of the navigation
\* vocabulary is among the texts the description is made of, whether they
\* were collected by the structured walk or by the fallback.
C24_NoChromeText ==
    npc = "done" => \A i \in 1..Len(all_text) : all_text[i] # "chrome"

(***************************************************************************)
(* Claims about concurrent add_hacker_to_team calls (checked under         *)
(* ConcSpec)                                                               *)
(***************************************************************************)
\* C27: after any interleaving of concurrent add_hacker_to_team calls on one
\* team, the team has no more hackers than its max_size.
C27_NeverOverMaxSize ==
    \A r \in team_rows : Cardinality(r.hackers) <= r.max_size

\* the call of session s returns in this step
Returns(s) == sessions[s].pc # "returned" /\ sessions'[s].pc = "returned"

====
